---- MODULE Spec2Model ----
(***************************************************************************)
(* Model of the image pipeline of jfin_core: the backdrop reordering       *)
(* protocol (normalize_item_backdrops_api), the normalization of a single  *)
(* item image and of a user's profile image, and restore_from_backups,     *)
(* together with the parts of the backup store, the imaging planner and    *)
(* the Jellyfin client they call.                                          *)
(*                                                                         *)
(* One invocation works on one item.  The media server is represented by   *)
(* the ordered list of images it holds for that item; the backup root by   *)
(* the files of the item's staging directory and the backup files.         *)
(***************************************************************************)
EXTENDS FiniteSets, Integers, Sequences, TLC

(***************************************************************************)
(* Bounds of the model.                                                    *)
(***************************************************************************)
\* largest backdrop_count reported by discovery
MaxTotal == 3
\* largest number of backdrops the server holds at the start
MaxServer == 3
\* number of invocations on the same item in the multi-run specification
MaxRuns == 2

(***************************************************************************)
(* Values.                                                                 *)
(***************************************************************************)
\* Python's None where a string or a result is expected, and the mark of an
\* exception that escaped
None == "None"
Raised == "raised"
\* None where an integer is expected (backdrop_count, backdrop_index)
NoInt == -1

ContentTypes == {"image/jpeg", "image/png", "image/webp", "application/octet-stream"}

\* An image payload (bytes): the picture it shows (id), the decoded size,
\* the content type the server reports for it, whether PIL can decode it, and
\* whether the bytes were produced by encode_image_to_bytes (re-encoded bytes
\* differ from the original bytes of the same picture).
ImagePool ==
    { [id |-> 1, w |-> 8, h |-> 4, ct |-> "image/jpeg", ok |-> TRUE,  norm |-> FALSE],
      [id |-> 2, w |-> 2, h |-> 1, ct |-> "image/png",  ok |-> TRUE,  norm |-> FALSE],
      [id |-> 3, w |-> 4, h |-> 2, ct |-> "image/jpeg", ok |-> FALSE, norm |-> FALSE],
      [id |-> 4, w |-> 6, h |-> 2, ct |-> "application/octet-stream", ok |-> TRUE, norm |-> FALSE],
      [id |-> 5, w |-> 4, h |-> 2, ct |-> "image/webp", ok |-> TRUE,  norm |-> FALSE] }

\* no payload: a fetch or probe that returned None
NoImage == [id |-> 0, w |-> 0, h |-> 0, ct |-> None, ok |-> FALSE, norm |-> FALSE]

\* b"": the placeholder payload of a dry run
EmptyBytes == [id |-> 0, w |-> 0, h |-> 0, ct |-> "", ok |-> FALSE, norm |-> FALSE]

\* ModeRuntimeSettings of the backdrop mode (the fields the protocol reads).
SettingsPool ==
    { [target_width |-> 4, target_height |-> 2, allow_upscale |-> TRUE,  allow_downscale |-> TRUE],
      [target_width |-> 4, target_height |-> 2, allow_upscale |-> FALSE, allow_downscale |-> TRUE] }

BackupModes == {"partial", "full"}

SeqsUpTo(S, n) == UNION { [1..k -> S] : k \in 0..n }

\* lists of distinct images: every backdrop of an item is an image of its own
DistinctSeqsUpTo(S, n) ==
    { q \in SeqsUpTo(S, n) : \A i, j \in DOMAIN q : q[i] = q[j] => i = j }

(***************************************************************************)
(* backup.py: pure helpers.                                                *)
(***************************************************************************)
\* "png" in ct / "jpeg" in ct or "jpg" in ct / "webp" in ct, else ValueError
guess_extension_from_content_type(content_type) ==
    CASE content_type = "image/png"  -> ".png"
      [] content_type = "image/jpeg" -> ".jpg"
      [] content_type = "image/jpg"  -> ".jpg"
      [] content_type = "image/webp" -> ".webp"
      [] OTHER -> Raised

\* constants.VALID_BACKUP_MODES, which backup.py imports
VALID_BACKUP_MODES == {"partial", "full"}

\* str(raw_mode).strip().lower() on the spellings that occur: surrounding
\* blanks are dropped and capitals become small letters
strip_lower(raw_mode) ==
    CASE raw_mode \in {"full", "FULL", " Full "}     -> "full"
      [] raw_mode \in {"partial", "Partial", "partial "} -> "partial"
      [] raw_mode = "OFF" -> "off"
      [] raw_mode = " "   -> ""
      [] OTHER -> raw_mode

\* "partial" for None, else the stripped lower-case string, which must be
\* in VALID_BACKUP_MODES or "partial" is the safe default
normalize_backup_mode(raw_mode) ==
    LET mode == IF raw_mode = None THEN "partial" ELSE strip_lower(raw_mode)
    IN  IF mode \in VALID_BACKUP_MODES THEN mode ELSE "partial"

\* variant: the mode is not looked at
should_backup_for_plan_partial_only(decision, backup_mode) == decision # "NO_SCALE"

should_backup_for_plan(decision, backup_mode) ==
    IF normalize_backup_mode(backup_mode) = "full" THEN TRUE
    ELSE decision # "NO_SCALE"

\* The file name of a backdrop backup: stem "backdrop", the index when > 0,
\* and the extension.  Modelled as the pair <<suffix, extension>> where the
\* suffix 0 stands for the bare stem.
backup_path_for_image(extension, backdrop_index) ==
    << IF backdrop_index # NoInt /\ backdrop_index > 0 THEN backdrop_index ELSE 0,
       extension >>

\* A directory as a set of files [name, data]; writing replaces the file of
\* the same name.
WriteFile(files, name, data) ==
    { f \in files : f.name # name } \cup { [name |-> name, data |-> data] }

FileExists(files, name) == \E f \in files : f.name = name

ReadFile(files, name) == (CHOOSE f \in files : f.name = name).data

\* save_backup with overwrite_existing as given: whether it raised (the
\* extension cannot be guessed) and the backup directory afterwards.
save_backup(files, data, content_type, overwrite_existing, backdrop_index) ==
    LET extension == guess_extension_from_content_type(content_type)
        path == backup_path_for_image(extension, backdrop_index)
    IN  IF extension = Raised THEN [raised |-> TRUE, files |-> files]
        ELSE IF FileExists(files, path)
             THEN IF overwrite_existing
                  THEN IF ReadFile(files, path) = data
                       THEN [raised |-> FALSE, files |-> files]
                       ELSE [raised |-> FALSE, files |-> WriteFile(files, path, data)]
                  ELSE [raised |-> FALSE, files |-> files]
             ELSE [raised |-> FALSE, files |-> WriteFile(files, path, data)]

(***************************************************************************)
(* imaging.py: the scale planner.  The scale is kept as a fraction         *)
(* <<numerator, denominator>>.                                             *)
(***************************************************************************)
FracLess(a, b) == a[1] * b[2] < b[1] * a[2]

FracMin(a, b) == IF FracLess(b, a) THEN b ELSE a

FracMax(a, b) == IF FracLess(a, b) THEN b ELSE a

One == <<1, 1>>

\* int(round(n / d)) with Python's round-half-to-even
RoundDiv(n, d) ==
    LET q == n \div d
        r == n % d
    IN  IF 2 * r < d THEN q
        ELSE IF 2 * r > d THEN q + 1
        ELSE IF q % 2 = 0 THEN q ELSE q + 1

\* variant: the scale is not clamped when upscaling is not allowed
compute_scaled_size_unclamped(orig_w, orig_h, target_w, target_h, fit_mode, allow_upscale, allow_downscale) ==
    LET scale_w == <<target_w, orig_w>>
        scale_h == <<target_h, orig_h>>
        raw == IF fit_mode = "fit" THEN FracMin(scale_w, scale_h)
               ELSE FracMax(scale_w, scale_h)
        scale == IF ~allow_downscale /\ FracLess(raw, One) THEN One ELSE raw
    IN  [scale |-> scale,
         new_w |-> RoundDiv(orig_w * scale[1], scale[2]),
         new_h |-> RoundDiv(orig_h * scale[1], scale[2])]

compute_scaled_size(orig_w, orig_h, target_w, target_h, fit_mode, allow_upscale, allow_downscale) ==
    LET scale_w == <<target_w, orig_w>>
        scale_h == <<target_h, orig_h>>
        raw == IF fit_mode = "fit" THEN FracMin(scale_w, scale_h)
               ELSE FracMax(scale_w, scale_h)
        up == IF ~allow_upscale /\ FracLess(One, raw) THEN One ELSE raw
        scale == IF ~allow_downscale /\ FracLess(up, One) THEN One ELSE up
    IN  [scale |-> scale,
         new_w |-> RoundDiv(orig_w * scale[1], scale[2]),
         new_h |-> RoundDiv(orig_h * scale[1], scale[2])]

make_scale_plan(orig_w, orig_h, target_w, target_h, fit_mode, allow_upscale, allow_downscale) ==
    LET s == compute_scaled_size(orig_w, orig_h, target_w, target_h, fit_mode,
                                 allow_upscale, allow_downscale)
    IN  [decision |-> IF FracLess(One, s.scale) THEN "SCALE_UP"
                      ELSE IF FracLess(s.scale, One) THEN "SCALE_DOWN"
                      ELSE "NO_SCALE",
         scale |-> s.scale,
         new_width |-> s.new_w, new_height |-> s.new_h,
         orig_width |-> orig_w, orig_height |-> orig_h]

\* build_normalized_image + encode_image_to_bytes for mode "backdrop":
\* cover_and_crop_image crops to exactly the target canvas and the payload
\* is encoded as JPEG.
build_normalized_backdrop(img, st) ==
    [id |-> img.id, w |-> st.target_width, h |-> st.target_height,
     ct |-> "image/jpeg", ok |-> TRUE, norm |-> TRUE]


\* variant: the backdrop is normalized without saving a backup
normalize_image_bytes_without_backup(data, content_type, st, make_backup, backup_root, backup_mode, dry_run, backdrop_index, write_ok) ==
    LET plan == make_scale_plan(data.w, data.h, st.target_width, st.target_height,
                                "cover", st.allow_upscale, st.allow_downscale)
    IN  IF ~data.ok
        THEN [raised |-> TRUE, decision |-> None, payload |-> NoImage,
              content_type |-> None, backup_root |-> backup_root]
        ELSE IF plan.decision = "NO_SCALE"
             THEN [raised |-> FALSE, decision |-> plan.decision, payload |-> data,
                   content_type |-> content_type, backup_root |-> backup_root]
             ELSE [raised |-> FALSE, decision |-> plan.decision,
                   payload |-> build_normalized_backdrop(data, st),
                   content_type |-> "image/jpeg", backup_root |-> backup_root]

\* _normalize_image_bytes for mode "backdrop" (fit_mode "cover", no logo
\* cropping).  backup_root is the item's backup directory; write_ok is
\* whether the file system lets save_backup write.  The result tells whether
\* an exception was raised and gives the plan's decision, the payload bytes,
\* the payload content type and the backup directory afterwards.
normalize_image_bytes(data, content_type, st, make_backup, backup_root, backup_mode, dry_run, backdrop_index, write_ok) ==
    LET plan == make_scale_plan(data.w, data.h, st.target_width, st.target_height,
                                "cover", st.allow_upscale, st.allow_downscale)
        wants_backup == make_backup /\ ~dry_run
                        /\ should_backup_for_plan(plan.decision, backup_mode)
        saved == IF wants_backup
                 THEN IF write_ok
                      THEN save_backup(backup_root, data, content_type, TRUE, backdrop_index)
                      ELSE [raised |-> TRUE, files |-> backup_root]
                 ELSE [raised |-> FALSE, files |-> backup_root]
        failed == [raised |-> TRUE, decision |-> None, payload |-> NoImage,
                   content_type |-> None, backup_root |-> backup_root]
    IN  IF ~data.ok THEN failed
        ELSE IF saved.raised THEN failed
        ELSE IF plan.decision = "NO_SCALE"
             THEN [raised |-> FALSE, decision |-> plan.decision, payload |-> data,
                   content_type |-> content_type, backup_root |-> saved.files]
             ELSE [raised |-> FALSE, decision |-> plan.decision,
                   payload |-> build_normalized_backdrop(data, st),
                   content_type |-> "image/jpeg", backup_root |-> saved.files]

(***************************************************************************)
(* State.                                                                  *)
(***************************************************************************)
VARIABLES
    cfg,                 \* arguments of the invocation and the client's options
    server,              \* the item's backdrops on the media server, in order
    staging,             \* <backup_root>/staging/<item id>: [exists, files]
    backups,             \* the item's backdrop backup files
    pc,                  \* phase of normalize_item_backdrops_api
    idx,                 \* loop counter of the current phase
    staged_files,        \* list of (index, file path, content type)
    normalized_payloads, \* list of (index, payload bytes, content type)
    deletions_started,
    any_upload_failed,
    result,              \* return value; Raised when an exception escapes
    stats,               \* state.stats counters
    calls,               \* the client calls of this invocation, in order
    aborted,             \* the phase in which the invocation aborted, or None
    rmtree_failed,       \* cleanup_staging_dir logged that the removal failed
    orig_server,         \* the server's list when the first invocation began
    replaced_orig,       \* per index: the original that was first replaced
    runs,                \* number of invocations started
    operation,           \* the operation invoked: "backdrops", "image",
                         \* "profile" or "restore"
    visited,             \* restore: the (item id, image type) groups done
    preview              \* the outcome of the dry run made before this run

vars == << cfg, server, staging, backups, pc, idx, staged_files,
           normalized_payloads, deletions_started, any_upload_failed, result,
           stats, calls, aborted, rmtree_failed, orig_server, replaced_orig,
           runs, operation, visited, preview >>

locals == << idx, staged_files, normalized_payloads, deletions_started,
             any_upload_failed >>

ghosts == << orig_server, replaced_orig, runs >>

\* what normalize_item_backdrops_api never touches
others == << operation, visited, preview >>

\* variant: a missing backdrop count is taken as one backdrop
total_none_as_one == IF cfg.backdrop_count = NoInt THEN 1 ELSE cfg.backdrop_count

\* total = item.backdrop_count or 0
total == IF cfg.backdrop_count = NoInt THEN 0 ELSE cfg.backdrop_count

\* The arguments of an invocation.  has_mode is whether IMAGE_TYPE_TO_MODE
\* maps "Backdrop"; has_settings whether settings_by_mode has the mode (the
\* settings and the count are not read when it has not).
Configs ==
    { c \in [ dry_run : BOOLEAN, make_backup : BOOLEAN, backup_mode : BackupModes,
              has_mode : BOOLEAN, has_settings : BOOLEAN, settings : SettingsPool,
              backdrop_count : (0..MaxTotal) \cup {NoInt},
              client_dry_run : BOOLEAN, fail_fast : BOOLEAN ] :
        /\ (~c.make_backup => c.backup_mode = "partial")
        /\ (~c.has_mode => ~c.has_settings)
        /\ (~c.has_settings => c.settings.allow_upscale /\ c.backdrop_count = 1) }

NoStats == [successes |-> 0, skipped |-> 0, warnings |-> 0, errors |-> 0]

NoStaging == [exists |-> FALSE, files |-> {}]

\* no dry run was made before this run
NoPreview == [made |-> FALSE, stats |-> NoStats, fetched |-> << >>]

InitLocals ==
    /\ pc = "start"
    /\ idx = 0
    /\ staged_files = << >>
    /\ normalized_payloads = << >>
    /\ deletions_started = FALSE
    /\ any_upload_failed = FALSE
    /\ result = None
    /\ calls = << >>
    /\ aborted = None
    /\ rmtree_failed = FALSE

Init ==
    /\ cfg \in Configs
    /\ server \in DistinctSeqsUpTo(ImagePool, MaxServer)
    /\ staging = NoStaging
    /\ backups = {}
    /\ stats = NoStats
    /\ InitLocals
    /\ orig_server = server
    /\ replaced_orig = [i \in 0..(MaxTotal - 1) |-> NoImage]
    /\ runs = 1
    /\ operation = "backdrops"
    /\ visited = << >>
    /\ preview = NoPreview

(***************************************************************************)
(* Steps shared by the phases.                                             *)
(***************************************************************************)
record_error(s) == [s EXCEPT !.errors = @ + 1]

record_success(s) == [s EXCEPT !.successes = @ + 1]

record_skip(s) == [s EXCEPT !.skipped = @ + 1]

record_warning(s) == [s EXCEPT !.warnings = @ + 1]

\* get_staging_dir: mkdir(parents=True, exist_ok=True)
get_staging_dir(dir) == [dir EXCEPT !.exists = TRUE]

\* cleanup_staging_dir: the outcomes.  Nothing happens when the directory
\* does not exist; otherwise shutil.rmtree removes it, or fails, which is
\* logged as a warning and tolerated, leaving the directory with the files
\* not removed yet.
cleanup_staging_dir(dir) ==
    IF ~dir.exists THEN { [dir |-> dir, failed |-> FALSE] }
    ELSE { [dir |-> NoStaging, failed |-> FALSE] }
         \cup { [dir |-> [exists |-> TRUE, files |-> kept], failed |-> TRUE] :
                kept \in SUBSET dir.files }

\* variant: the staging directory is never cleaned on failure
cleanup_staging_on_failure_noop(dir, dry_run, started) ==
    { [dir |-> dir, failed |-> FALSE] }

\* cleanup_staging_on_failure: a no-op in a dry run and once deletions began
cleanup_staging_on_failure(dir, dry_run, started) ==
    IF dry_run \/ started THEN { [dir |-> dir, failed |-> FALSE] }
    ELSE cleanup_staging_dir(dir)

\* variant: the early return is missing and the run falls through to the
\* DELETE phase
AbortWithCleanup_no_return(phase) ==
    /\ stats' = record_error(stats)
    /\ \E o \in cleanup_staging_on_failure(staging, cfg.dry_run, deletions_started) :
         /\ staging' = o.dir
         /\ rmtree_failed' = (rmtree_failed \/ o.failed)
    /\ result' = None
    /\ aborted' = phase
    /\ pc' = "delete"

\* return False after recording one error and cleaning up staging
AbortWithCleanup(phase) ==
    /\ stats' = record_error(stats)
    /\ \E o \in cleanup_staging_on_failure(staging, cfg.dry_run, deletions_started) :
         /\ staging' = o.dir
         /\ rmtree_failed' = (rmtree_failed \/ o.failed)
    /\ result' = "False"
    /\ aborted' = phase
    /\ pc' = "done"

Call(op, index, data, ret) == [op |-> op, index |-> index, data |-> data, ret |-> ret]

(***************************************************************************)
(* The Jellyfin client as the protocol sees it: the possible outcomes of   *)
(* one call, each with the value returned and the server's list afterwards.*)
(* A request that fails leaves the server as it was.                       *)
(***************************************************************************)
\* get_item_image(item_id, "Backdrop", index): the payload at that index, or
\* None when the image is missing or every attempt of _get failed
get_item_image(srv, index) ==
    { NoImage } \cup (IF index < Len(srv) THEN { srv[index + 1] } ELSE {})

\* get_item_image_head(..., index, retry=False): content when the image is
\* present, None when it is missing or the request failed
get_item_image_head(srv, index) ==
    { NoImage } \cup (IF index < Len(srv) THEN { srv[index + 1] } ELSE {})

\* delete_image(uuid, "Backdrop", image_index).  A dry-run client returns
\* True without a request.  Otherwise: an OK response removes the image and
\* the later ones shift down; an exception of the request returns False; a
\* non-OK response on every attempt returns False, or raises RuntimeError
\* under fail_fast.
delete_image(srv, image_index, client_dry_run, fail_fast) ==
    IF client_dry_run THEN { [ret |-> "True", server |-> srv] }
    ELSE { [ret |-> "False", server |-> srv] }
         \cup (IF fail_fast THEN { [ret |-> Raised, server |-> srv] } ELSE {})
         \cup (IF image_index < Len(srv)
               THEN { [ret |-> "True",
                       server |-> SubSeq(srv, 1, image_index)
                                  \o SubSeq(srv, image_index + 2, Len(srv))] }
               ELSE {})

\* set_item_image_bytes(item_id, "Backdrop", data, content_type,
\* backdrop_index) through _post_image.  A dry-run client returns True
\* without a request.  Otherwise: an OK response adds the image after the
\* item's existing backdrops; when every attempt failed the call returns
\* False, or raises RuntimeError under fail_fast.
set_item_image_bytes(srv, data, content_type, backdrop_index, client_dry_run, fail_fast) ==
    IF client_dry_run THEN { [ret |-> "True", server |-> srv] }
    ELSE { [ret |-> "True", server |-> Append(srv, [data EXCEPT !.ct = content_type])],
           [ret |-> IF fail_fast THEN Raised ELSE "False", server |-> srv] }

(***************************************************************************)
(* normalize_item_backdrops_api                                            *)
(***************************************************************************)
\* variant: each delete addresses the position of the loop counter
delete_index_at_counter == idx

\* the index every delete of the DELETE phase is issued with
delete_index == 0

\* variant: the payloads are taken from the end of the list
upload_entry_reversed(payloads, upload_index) == payloads[Len(payloads) - upload_index]

\* the entry of normalized_payloads uploaded at upload_index
upload_entry(payloads, upload_index) == payloads[upload_index + 1]

\* Guards before the phases: mode mapping, settings, total, staging directory
Enter ==
    /\ pc = "start"
    /\ IF ~cfg.has_mode \/ ~cfg.has_settings
       THEN /\ stats' = record_warning(stats)
            /\ result' = "False"
            /\ pc' = "done"
            /\ UNCHANGED staging
       ELSE IF total = 0
       THEN /\ stats' = record_skip(stats)
            /\ result' = "False"
            /\ pc' = "done"
            /\ UNCHANGED staging
       ELSE /\ staging' = IF ~cfg.dry_run THEN get_staging_dir(staging) ELSE staging
            /\ pc' = "fetch"
            /\ UNCHANGED << stats, result >>
    /\ UNCHANGED << cfg, server, backups, locals, calls, aborted, rmtree_failed, ghosts, others >>

\* Phase 1, one iteration: fetch the backdrop at src_index and stage it
FetchStep ==
    /\ pc = "fetch"
    /\ idx < total
    /\ \E fetched \in get_item_image(server, idx), write_ok \in BOOLEAN :
         LET ext == guess_extension_from_content_type(fetched.ct)
             staged_path == << idx, ext >>
         IN
         /\ calls' = Append(calls, Call("get_item_image", idx, fetched, None))
         /\ IF fetched = NoImage
            THEN /\ write_ok
                 /\ AbortWithCleanup("fetch")
                 /\ UNCHANGED << idx, staged_files >>
            ELSE IF ~cfg.dry_run /\ staging.exists
            THEN IF ext = Raised \/ ~write_ok
                 THEN /\ AbortWithCleanup("fetch")
                      /\ UNCHANGED << idx, staged_files >>
                 ELSE /\ staging' = [staging EXCEPT !.files = WriteFile(@, staged_path, fetched)]
                      /\ staged_files' = Append(staged_files,
                             [index |-> idx, path |-> staged_path, content_type |-> fetched.ct])
                      /\ idx' = idx + 1
                      /\ UNCHANGED << stats, result, aborted, rmtree_failed, pc >>
            ELSE /\ write_ok
                 /\ staged_files' = Append(staged_files,
                        [index |-> idx, path |-> << NoInt, None >>, content_type |-> fetched.ct])
                 /\ idx' = idx + 1
                 /\ UNCHANGED << staging, stats, result, aborted, rmtree_failed, pc >>
    /\ UNCHANGED << cfg, server, backups, normalized_payloads, deletions_started,
                    any_upload_failed, ghosts, others >>

\* End of phase 1: the count check
FetchDone ==
    /\ pc = "fetch"
    /\ idx = total
    /\ IF Len(staged_files) # total
       THEN AbortWithCleanup("fetch")
       ELSE /\ pc' = "normalize"
            /\ UNCHANGED << staging, stats, result, aborted, rmtree_failed >>
    /\ idx' = 0
    /\ UNCHANGED << cfg, server, backups, staged_files, normalized_payloads,
                    deletions_started, any_upload_failed, calls, ghosts, others >>

\* Phase 2, one iteration: normalize the next staged file
NormalizeStep ==
    /\ pc = "normalize"
    /\ idx < Len(staged_files)
    /\ LET entry == staged_files[idx + 1] IN
       IF cfg.dry_run
       THEN /\ stats' = record_success(stats)
            /\ normalized_payloads' = Append(normalized_payloads,
                   [index |-> entry.index, payload |-> EmptyBytes,
                    content_type |-> entry.content_type])
            /\ idx' = idx + 1
            /\ UNCHANGED << staging, backups, result, aborted, rmtree_failed, pc >>
       ELSE IF entry.path = << NoInt, None >>
       THEN /\ AbortWithCleanup("normalize")
            /\ UNCHANGED << backups, normalized_payloads, idx >>
       ELSE \E read_ok \in BOOLEAN, write_ok \in BOOLEAN :
            IF ~read_ok \/ ~FileExists(staging.files, entry.path)
            THEN /\ write_ok
                 /\ AbortWithCleanup("normalize")
                 /\ UNCHANGED << backups, normalized_payloads, idx >>
            ELSE LET data == ReadFile(staging.files, entry.path)
                     r == normalize_image_bytes(data, entry.content_type, cfg.settings,
                              cfg.make_backup, backups, cfg.backup_mode, FALSE,
                              entry.index, write_ok)
                 IN  IF r.raised
                     THEN /\ AbortWithCleanup("normalize")
                          /\ UNCHANGED << backups, normalized_payloads, idx >>
                     ELSE /\ backups' = r.backup_root
                          /\ normalized_payloads' = Append(normalized_payloads,
                                 [index |-> entry.index, payload |-> r.payload,
                                  content_type |-> r.content_type])
                          /\ idx' = idx + 1
                          /\ UNCHANGED << staging, stats, result, aborted,
                                          rmtree_failed, pc >>
    /\ UNCHANGED << cfg, server, staged_files, deletions_started, any_upload_failed,
                    calls, ghosts, others >>

\* End of phase 2: the count check; a real run marks the deletions as begun
NormalizeDone ==
    /\ pc = "normalize"
    /\ idx = Len(staged_files)
    /\ IF Len(normalized_payloads) # total
       THEN /\ AbortWithCleanup("normalize")
            /\ UNCHANGED deletions_started
       ELSE /\ pc' = "delete"
            /\ deletions_started' = ~cfg.dry_run
            /\ UNCHANGED << staging, stats, result, aborted, rmtree_failed >>
    /\ idx' = 0
    /\ UNCHANGED << cfg, server, backups, staged_files, normalized_payloads,
                    any_upload_failed, calls, ghosts, others >>

\* variant: a failed delete is recorded and the loop goes on
DeleteFailed_continue ==
    /\ stats' = record_error(stats)
    /\ idx' = IF idx + 1 = total THEN 0 ELSE idx + 1
    /\ pc' = IF idx + 1 = total THEN "verify" ELSE "delete"
    /\ UNCHANGED << result, aborted >>

\* a delete returned False: one error, no upload, return False
DeleteFailed ==
    /\ stats' = record_error(stats)
    /\ result' = "False"
    /\ aborted' = "delete"
    /\ pc' = "done"
    /\ UNCHANGED idx

\* Phase 3, one iteration: delete the backdrop at index 0 (skipped as a
\* whole in a dry run)
DeleteStep ==
    /\ pc = "delete"
    /\ IF cfg.dry_run
       THEN /\ pc' = "upload"
            /\ UNCHANGED << server, idx, stats, result, calls, aborted >>
       ELSE /\ idx < total
            /\ \E out \in delete_image(server, delete_index, cfg.client_dry_run, cfg.fail_fast) :
                 /\ calls' = Append(calls, Call("delete_image", delete_index, NoImage, out.ret))
                 /\ server' = out.server
                 /\ IF out.ret = "True"
                    THEN /\ idx' = IF idx + 1 = total THEN 0 ELSE idx + 1
                         /\ pc' = IF idx + 1 = total THEN "verify" ELSE "delete"
                         /\ UNCHANGED << stats, result, aborted >>
                    ELSE IF out.ret = "False"
                    THEN DeleteFailed
                    ELSE /\ result' = Raised
                         /\ pc' = "done"
                         /\ UNCHANGED << stats, idx, aborted >>
    /\ UNCHANGED << cfg, staging, backups, staged_files, normalized_payloads,
                    deletions_started, any_upload_failed, rmtree_failed, ghosts, others >>

\* variant: the failed verification is recorded but the upload phase runs
VerifyFailed_upload_anyway ==
    /\ stats' = record_error(stats)
    /\ pc' = "upload"
    /\ UNCHANGED << result, aborted >>

\* the probe still found an image at index 0: one error, no upload,
\* return False
VerifyFailed ==
    /\ stats' = record_error(stats)
    /\ result' = "False"
    /\ aborted' = "verify"
    /\ pc' = "done"

\* The 404 verification after the deletes
Verify ==
    /\ pc = "verify"
    /\ \E verification \in get_item_image_head(server, 0) :
         /\ calls' = Append(calls, Call("get_item_image_head", 0, verification, None))
         /\ IF verification # NoImage
            THEN VerifyFailed
            ELSE /\ pc' = "upload"
                 /\ UNCHANGED << stats, result, aborted >>
    /\ UNCHANGED << cfg, server, staging, backups, locals, rmtree_failed, ghosts, others >>

\* The original bytes staged for a source index
StagedOriginal(src_index) ==
    LET entry == staged_files[src_index + 1]
    IN  IF FileExists(staging.files, entry.path)
        THEN ReadFile(staging.files, entry.path) ELSE NoImage

\* variant: a failed upload returns False at once, as a failed delete does
UploadFailed_return ==
    /\ stats' = record_error(stats)
    /\ any_upload_failed' = TRUE
    /\ result' = "False"
    /\ pc' = "done"
    /\ UNCHANGED idx

\* an upload returned False: one error, remember the failure, go on with the
\* remaining uploads
UploadFailed ==
    /\ stats' = record_error(stats)
    /\ any_upload_failed' = TRUE
    /\ idx' = idx + 1
    /\ pc' = IF idx + 1 = Len(normalized_payloads) THEN "cleanup" ELSE "upload"
    /\ UNCHANGED result

\* Phase 4, one iteration: upload the next normalized payload (skipped as a
\* whole in a dry run)
UploadStep ==
    /\ pc = "upload"
    /\ IF cfg.dry_run
       THEN /\ pc' = "cleanup"
            /\ UNCHANGED << server, idx, stats, result, calls, any_upload_failed,
                            replaced_orig >>
       ELSE /\ idx < Len(normalized_payloads)
            /\ LET entry == upload_entry(normalized_payloads, idx) IN
               \E out \in set_item_image_bytes(server, entry.payload, entry.content_type,
                                               idx, cfg.client_dry_run, cfg.fail_fast) :
                 /\ calls' = Append(calls,
                        Call("set_item_image_bytes", idx, entry.payload, out.ret))
                 /\ server' = out.server
                 /\ IF out.ret = "True"
                    THEN /\ stats' = record_success(stats)
                         /\ idx' = idx + 1
                         /\ pc' = IF idx + 1 = Len(normalized_payloads)
                                  THEN "cleanup" ELSE "upload"
                         /\ replaced_orig' =
                              IF /\ ~cfg.client_dry_run
                                 /\ idx \in DOMAIN replaced_orig
                                 /\ replaced_orig[idx] = NoImage
                                 /\ entry.payload # StagedOriginal(entry.index)
                              THEN [replaced_orig EXCEPT ![idx] = StagedOriginal(entry.index)]
                              ELSE replaced_orig
                         /\ UNCHANGED << result, any_upload_failed >>
                    ELSE IF out.ret = "False"
                    THEN /\ UploadFailed
                         /\ UNCHANGED replaced_orig
                    ELSE /\ result' = Raised
                         /\ pc' = "done"
                         /\ UNCHANGED << stats, idx, any_upload_failed, replaced_orig >>
    /\ UNCHANGED << cfg, staging, backups, staged_files, normalized_payloads,
                    deletions_started, aborted, rmtree_failed, orig_server, runs,
                    others >>

\* variant: the staging directory is removed whether or not an upload failed
Cleanup_always_removes ==
    /\ pc = "cleanup"
    /\ \E o \in (IF ~cfg.dry_run
                 THEN cleanup_staging_dir(staging)
                 ELSE { [dir |-> staging, failed |-> FALSE] }) :
         /\ staging' = o.dir
         /\ rmtree_failed' = (rmtree_failed \/ o.failed)
    /\ result' = IF ~cfg.dry_run /\ any_upload_failed THEN "False" ELSE "True"
    /\ pc' = "done"
    /\ UNCHANGED << cfg, server, backups, locals, stats, calls, aborted, ghosts, others >>

\* Phase 5: remove the staging directory unless an upload failed, and return
Cleanup ==
    /\ pc = "cleanup"
    /\ \E o \in (IF ~cfg.dry_run /\ ~any_upload_failed
                 THEN cleanup_staging_dir(staging)
                 ELSE { [dir |-> staging, failed |-> FALSE] }) :
         /\ staging' = o.dir
         /\ rmtree_failed' = (rmtree_failed \/ o.failed)
    /\ result' = IF ~cfg.dry_run /\ any_upload_failed THEN "False" ELSE "True"
    /\ pc' = "done"
    /\ UNCHANGED << cfg, server, backups, locals, stats, calls, aborted, ghosts, others >>

Next ==
    \/ Enter
    \/ FetchStep
    \/ FetchDone
    \/ NormalizeStep
    \/ NormalizeDone
    \/ DeleteStep
    \/ Verify
    \/ UploadStep
    \/ Cleanup

Spec == Init /\ [][Next]_vars

(***************************************************************************)
(* Several runs of the tool over the same item: real runs with backups     *)
(* enabled, each started after a fresh discovery of the item.  The server, *)
(* the staging area and the backup store persist between the runs; the     *)
(* counters of state.stats belong to one process.                          *)
(***************************************************************************)
RunConfigs ==
    { c \in Configs : /\ ~c.dry_run /\ c.make_backup /\ c.has_settings
                      /\ ~c.client_dry_run /\ ~c.fail_fast }

InitRuns ==
    /\ Init
    /\ cfg \in RunConfigs
    /\ Len(server) <= MaxTotal
    /\ cfg.backdrop_count = Len(server)

Rerun ==
    /\ pc = "done"
    /\ runs < MaxRuns
    /\ Len(server) <= MaxTotal
    /\ runs' = runs + 1
    /\ cfg' = [cfg EXCEPT !.backdrop_count = Len(server)]
    /\ stats' = NoStats
    /\ pc' = "start"
    /\ idx' = 0
    /\ staged_files' = << >>
    /\ normalized_payloads' = << >>
    /\ deletions_started' = FALSE
    /\ any_upload_failed' = FALSE
    /\ result' = None
    /\ calls' = << >>
    /\ aborted' = None
    /\ rmtree_failed' = FALSE
    /\ UNCHANGED << server, staging, backups, orig_server, replaced_orig, others >>

NextRuns == Next \/ Rerun

SpecRuns == InitRuns /\ [][NextRuns]_vars


TypeOK ==
    /\ cfg \in Configs
    /\ pc \in {"start", "fetch", "normalize", "delete", "verify", "upload", "cleanup", "done"}
    /\ result \in {None, "True", "False", Raised}
    /\ idx \in 0..MaxTotal
    /\ Len(server) <= MaxServer + MaxTotal
    /\ staging.exists \in BOOLEAN

(***************************************************************************)
(* Properties.                                                             *)
(***************************************************************************)
is_get(c) == c.op = "get_item_image"

is_delete(c) == c.op = "delete_image"

is_head(c) == c.op = "get_item_image_head"

is_upload(c) == c.op = "set_item_image_bytes"

Gets == SelectSeq(calls, is_get)

Deletes == SelectSeq(calls, is_delete)

Uploads == SelectSeq(calls, is_upload)

Pos(op) == { p \in 1..Len(calls) : calls[p].op = op }

\* the invocation got past the guards in front of the FETCH phase
Ran == cfg.has_settings /\ total >= 1

Returned == pc = "done" /\ result \in {"True", "False"}

\* the payload _normalize_image_bytes produces for fetched bytes
ExpectedPayload(data) ==
    normalize_image_bytes(data, data.ct, cfg.settings, FALSE, {}, "partial", FALSE,
                          NoInt, TRUE).payload

\* every client call succeeded, the probe found nothing, and neither staging
\* nor normalization failed
NoInducedFailure ==
    /\ \A p \in 1..Len(calls) :
         LET c == calls[p] IN
         /\ is_get(c) => c.data # NoImage
         /\ is_delete(c) => c.ret = "True"
         /\ is_head(c) => c.data = NoImage
         /\ is_upload(c) => c.ret = "True"
    /\ aborted = None
    /\ result # Raised

\* C1: in a real run with total = N >= 1 and no failure, delete_image is
\* called exactly N times, always with index 0, every delete precedes every
\* upload, and set_item_image_bytes is called exactly N times with
\* backdrop_index 0..N-1 in that order, the i-th upload carrying the payload
\* normalized from the bytes fetched at source index i.
C1_ReorderCalls ==
    (pc = "done" /\ ~cfg.dry_run /\ Ran /\ NoInducedFailure) =>
        /\ Len(Deletes) = total
        /\ \A k \in 1..Len(Deletes) : Deletes[k].index = 0
        /\ \A d \in Pos("delete_image"), u \in Pos("set_item_image_bytes") : d < u
        /\ Len(Gets) = total
        /\ Len(Uploads) = total
        /\ \A k \in 1..Len(Uploads) :
             /\ Uploads[k].index = k - 1
             /\ Uploads[k].data = ExpectedPayload(Gets[k].data)

C1_Witness ==
    /\ pc = "done" /\ ~cfg.dry_run /\ Ran /\ NoInducedFailure
    /\ ~cfg.client_dry_run
    /\ total >= 2
    /\ Len(Uploads) = total
    /\ Uploads[1].data # Uploads[2].data
    /\ Uploads[1].data.norm

\* the N normalized images of the original list, in source order
NormalizedList == [k \in 1..total |-> ExpectedPayload(orig_server[k])]

\* C2 as claimed: when a real run returns, the server's backdrop list is
\* either the complete original list or the complete list of the N
\* normalized images in source order.
C2_NeverPartial ==
    (Returned /\ ~cfg.dry_run /\ Ran) =>
        \/ server = orig_server
        \/ (Len(orig_server) >= total /\ server = NormalizedList)

SuccessfulDeletes ==
    IF cfg.client_dry_run THEN 0
    ELSE Cardinality({ p \in Pos("delete_image") : calls[p].ret = "True" })

payload_of(c) == c.data

SuccessfulUploads ==
    IF cfg.client_dry_run THEN << >>
    ELSE LET ok(c) == is_upload(c) /\ c.ret = "True"
             sel == SelectSeq(calls, ok)
         IN  [k \in 1..Len(sel) |-> payload_of(sel[k])]

\* C2 as amended: the list is the complete original list when the run
\* returns without having issued a delete; it is the originals beyond the
\* first N followed by the complete list of the N normalized images in source
\* order when the run returns True with a client that writes; in every other
\* case it is the originals not yet deleted followed by the normalized images
\* whose upload succeeded, in source order.
C2_ReplacementShape ==
    (Returned /\ ~cfg.dry_run /\ Ran) =>
        /\ Pos("delete_image") = {} => server = orig_server
        /\ (result = "True" /\ ~cfg.client_dry_run) =>
               /\ Len(orig_server) >= total
               /\ server = SubSeq(orig_server, total + 1, Len(orig_server)) \o NormalizedList
        /\ SuccessfulDeletes <= Len(orig_server)
        /\ server = SubSeq(orig_server, SuccessfulDeletes + 1, Len(orig_server))
                    \o SuccessfulUploads

C2_Witness ==
    /\ Returned /\ ~cfg.dry_run /\ Ran /\ ~cfg.client_dry_run
    /\ result = "False"
    /\ Len(orig_server) = total
    /\ total >= 2
    /\ Len(server) = 1
    /\ server[1].norm

\* C3 as claimed: with backups enabled in real runs, once the server image
\* at a backdrop index has been replaced by a normalized payload, the backup
\* store holds, under that index, the bytes of the original that was there
\* before the first replacement.
C3_OriginalKeptInBackup ==
    \A i \in DOMAIN replaced_orig :
        replaced_orig[i] # NoImage =>
            \E f \in backups : f.name[1] = i /\ f.data = replaced_orig[i]

\* C4: when a step before the DELETE phase fails (fetch, staging or
\* normalization), no delete_image and no set_item_image_bytes call is made
\* in that invocation and it returns False.
C4_EarlyFailureNoWrites ==
    (pc = "done" /\ aborted \in {"fetch", "normalize"}) =>
        /\ Pos("delete_image") = {}
        /\ Pos("set_item_image_bytes") = {}
        /\ result = "False"

C4_Witness ==
    /\ pc = "done" /\ aborted = "normalize" /\ ~cfg.dry_run
    /\ Len(normalized_payloads) >= 1
    /\ Len(Gets) = total

\* C5: the first delete_image call that returns False ends the protocol: it
\* is the last client call of the invocation (no further delete, no probe,
\* no upload) and the invocation returns False.
C5_DeleteFailureEnds ==
    \A p \in Pos("delete_image") :
        calls[p].ret = "False" =>
            /\ p = Len(calls)
            /\ pc = "done"
            /\ result = "False"

C5_Witness ==
    /\ Len(calls) >= 2
    /\ is_delete(calls[Len(calls)]) /\ calls[Len(calls)].ret = "False"
    /\ is_delete(calls[Len(calls) - 1]) /\ calls[Len(calls) - 1].ret = "True"
    /\ idx + 1 < total

\* C6: the verify probe is issued once, for index 0, right after the N
\* successful deletes and before any upload; no upload is issued without it;
\* and when it returns content no upload is made and the invocation returns
\* False.
C6_VerifyProbe ==
    /\ Cardinality(Pos("get_item_image_head")) <= 1
    /\ \A h \in Pos("get_item_image_head") :
         /\ calls[h].index = 0
         /\ h > total
         /\ \A q \in (h - total)..(h - 1) : is_delete(calls[q]) /\ calls[q].ret = "True"
         /\ Len(Deletes) = total
         /\ \A u \in Pos("set_item_image_bytes") : h < u
         /\ calls[h].data # NoImage =>
              /\ Pos("set_item_image_bytes") = {}
              /\ pc = "done"
              /\ result = "False"
    /\ (~cfg.dry_run /\ pc \in {"upload", "cleanup"}) =>
           Cardinality(Pos("get_item_image_head")) = 1
    /\ Pos("set_item_image_bytes") # {} => Pos("get_item_image_head") # {}

C6_Witness ==
    /\ pc = "done"
    /\ total >= 2
    /\ \E h \in Pos("get_item_image_head") : calls[h].data # NoImage

FailedUploads == { p \in Pos("set_item_image_bytes") : calls[p].ret # "True" }

OkUploads == { p \in Pos("set_item_image_bytes") : calls[p].ret = "True" }

\* what C7 says of an invocation that has ended after issuing an upload
UploadPhaseOutcome ==
    /\ Len(Uploads) = total
    /\ \A k \in 1..Len(Uploads) : Uploads[k].index = k - 1
    /\ stats.errors = Cardinality(FailedUploads)
    /\ stats.successes = Cardinality(OkUploads)
    /\ result \in {"True", "False"}
    /\ result = "False" <=> FailedUploads # {}

StagedOriginalsKept ==
    /\ staging.exists
    /\ Len(Gets) = total
    /\ \A k \in 1..total :
         \E f \in staging.files : f.name[1] = k - 1 /\ f.data = Gets[k].data

\* C8 as claimed: when a real run that reached the UPLOAD phase returns, the
\* staging directory has been deleted exactly when no upload failed; when an
\* upload failed it exists and holds every staged original.
C8_StagingIffUploadsOk ==
    (Returned /\ ~cfg.dry_run /\ Ran /\ Pos("set_item_image_bytes") # {}) =>
        /\ ~staging.exists <=> FailedUploads = {}
        /\ FailedUploads # {} => StagedOriginalsKept

\* C8 as amended: the directory has been deleted exactly when no upload
\* failed and its removal did not fail; when an upload failed it exists and
\* holds every staged original.
C8_StagingIffUploadsOkAndRemoved ==
    (Returned /\ ~cfg.dry_run /\ Ran /\ Pos("set_item_image_bytes") # {}) =>
        /\ ~staging.exists <=> (FailedUploads = {} /\ ~rmtree_failed)
        /\ FailedUploads # {} => StagedOriginalsKept /\ ~rmtree_failed

C8_Witness ==
    /\ Returned /\ ~cfg.dry_run /\ Ran
    /\ total >= 2
    /\ Cardinality(FailedUploads) = 1
    /\ Cardinality(OkUploads) = total - 1
    /\ Cardinality(staging.files) = total

\* C9 as claimed: in a real run, an abort during FETCH or NORMALIZE leaves
\* no staging directory for the item.
C9_AbortRemovesStaging ==
    (pc = "done" /\ ~cfg.dry_run /\ aborted \in {"fetch", "normalize"}) =>
        ~staging.exists

\* C9 as amended: such an abort removes the staging directory before
\* returning, unless the removal itself fails, which is logged and
\* tolerated.
C9_AbortRemovesStagingUnlessRmtreeFails ==
    (pc = "done" /\ ~cfg.dry_run /\ aborted \in {"fetch", "normalize"}) =>
        (~staging.exists \/ rmtree_failed)

C9_Witness ==
    /\ pc = "done" /\ ~cfg.dry_run /\ aborted = "fetch"
    /\ Len(staged_files) >= 1
    /\ ~staging.exists

PhaseRank(p) ==
    CASE p = "start" -> 0
      [] p = "fetch" -> 1
      [] p = "normalize" -> 2
      [] p = "delete" -> 3
      [] p = "verify" -> 4
      [] p = "upload" -> 5
      [] p = "cleanup" -> 6
      [] p = "done" -> 7

\* a step never goes back to an earlier phase and never jumps over a phase,
\* except that it may end the invocation and that a dry run, which deletes
\* nothing, has nothing to verify
PhaseOrderStep ==
    /\ PhaseRank(pc) <= PhaseRank(pc')
    /\ pc' # "done" =>
          \/ PhaseRank(pc') <= PhaseRank(pc) + 1
          \/ (cfg.dry_run /\ pc = "delete" /\ pc' = "upload")

\* the invocation ends from inside a phase, without reaching CLEANUP
AbortStep == pc \in {"fetch", "normalize", "delete", "verify", "upload"} /\ pc' = "done"

\* steps still to go, at most: the phases ahead, each of at most MaxTotal + 1
\* steps, and the rest of the loop of the present phase
StepsLeft == (7 - PhaseRank(pc)) * (MaxTotal + 2) + (MaxTotal + 1 - idx)

\* every step brings the end nearer, and a step is possible until the end
Terminates ==
    /\ [][StepsLeft' < StepsLeft /\ StepsLeft' >= 0]_vars
    /\ [](pc # "done" => ENABLED Next)

BackdropMode == "backdrop"

BackdropStem == "backdrop"

IMAGE_TYPE_TO_MODE(image_type) ==
    CASE image_type = "Logo"     -> "logo"
      [] image_type = "Thumb"    -> "thumb"
      [] image_type = "Primary"  -> "profile"
      [] image_type = "Backdrop" -> BackdropMode
      [] OTHER -> None

FILENAME_CONFIG(image_type) ==
    CASE image_type = "Logo"     -> "logo"
      [] image_type = "Thumb"    -> "landscape"
      [] image_type = "Primary"  -> "profile"
      [] image_type = "Backdrop" -> BackdropStem
      [] OTHER -> None

(***************************************************************************)
(* Backup file names.  A name is kept as its parts: the letters of the     *)
(* stem, the decimal digits that follow them, and the extension.           *)
(***************************************************************************)
RECURSIVE DecimalDigits(_)
\* str(n) for n >= 0, as a sequence of digits
DecimalDigits(n) ==
    IF n < 10 THEN << n >> ELSE Append(DecimalDigits(n \div 10), n % 10)

RECURSIVE DigitsValue(_)
\* int(suffix) for a string of digits
DigitsValue(ds) ==
    IF ds = << >> THEN 0
    ELSE 10 * DigitsValue(SubSeq(ds, 1, Len(ds) - 1)) + ds[Len(ds)]

FileName(letters, digits, ext) == [letters |-> letters, digits |-> digits, ext |-> ext]

\* backup_path_for_image for any image type: the configured stem, the
\* backdrop index when it is > 0, and the extension
backup_file_name(image_type, extension, backdrop_index) ==
    FileName(FILENAME_CONFIG(image_type),
             IF backdrop_index # NoInt /\ backdrop_index > 0
             THEN DecimalDigits(backdrop_index) ELSE << >>,
             extension)

\* variant: an existing file is always replaced
save_backup_file_always_writes(files, image_type, data, content_type, overwrite_existing, backdrop_index, read_ok) ==
    LET extension == guess_extension_from_content_type(content_type)
        path == backup_file_name(image_type, extension, backdrop_index)
    IN  IF extension = Raised THEN [raised |-> TRUE, files |-> files, wrote |-> FALSE]
        ELSE [raised |-> FALSE, files |-> WriteFile(files, path, data), wrote |-> TRUE]

\* save_backup for any image type, on a directory of files [name, data]:
\* whether it raised, the directory afterwards, and whether write_bytes ran.
\* read_ok: reading the existing file succeeds (a failed read is logged and
\* the file is overwritten).
save_backup_file(files, image_type, data, content_type, overwrite_existing, backdrop_index, read_ok) ==
    LET extension == guess_extension_from_content_type(content_type)
        path == backup_file_name(image_type, extension, backdrop_index)
    IN  IF extension = Raised THEN [raised |-> TRUE, files |-> files, wrote |-> FALSE]
        ELSE IF FileExists(files, path)
             THEN IF overwrite_existing /\ (~read_ok \/ ReadFile(files, path) # data)
                  THEN [raised |-> FALSE, files |-> WriteFile(files, path, data), wrote |-> TRUE]
                  ELSE [raised |-> FALSE, files |-> files, wrote |-> FALSE]
             ELSE [raised |-> FALSE, files |-> WriteFile(files, path, data), wrote |-> TRUE]

(***************************************************************************)
(* Single images: normalize_item_image_api for a Logo, Thumb or Primary    *)
(* image of an item, and normalize_profile_user for a user's profile       *)
(* image.  server holds the one image, or nothing; backups is the backup   *)
(* directory of the item or user, with files [name, data].                 *)
(***************************************************************************)
\* fit_mode = "fit" if mode == "logo" else "cover"
fit_mode_for(mode) == IF mode = "logo" THEN "fit" ELSE "cover"

\* build_normalized_image + encode_image_to_bytes: the canvas of the target
\* size, encoded as PNG for logos, JPEG for thumbs and backdrops, WebP for
\* profiles
build_normalized_image(img, mode, st) ==
    [id |-> img.id, w |-> st.target_width, h |-> st.target_height,
     ct |-> CASE mode = "logo" -> "image/png"
              [] mode = "profile" -> "image/webp"
              [] OTHER -> "image/jpeg",
     ok |-> TRUE, norm |-> TRUE]

\* variant: the backup is written in a dry run too
plan_and_backup_image_in_dry_run(files, image_type, data, content_type, fit_mode, st, make_backup, backup_mode, dry_run, write_ok) ==
    LET plan == make_scale_plan(data.w, data.h, st.target_width, st.target_height,
                                fit_mode, st.allow_upscale, st.allow_downscale)
    IN  IF make_backup /\ should_backup_for_plan(plan.decision, backup_mode)
        THEN IF write_ok
             THEN [decision |-> plan.decision] @@
                  save_backup_file(files, image_type, data, content_type, TRUE, NoInt, TRUE)
             ELSE [decision |-> plan.decision, raised |-> TRUE, files |-> files]
        ELSE [decision |-> plan.decision, raised |-> FALSE, files |-> files]

\* _plan_and_backup_image: the plan's decision, whether save_backup raised,
\* and the backup directory afterwards
plan_and_backup_image(files, image_type, data, content_type, fit_mode, st, make_backup, backup_mode, dry_run, write_ok) ==
    LET plan == make_scale_plan(data.w, data.h, st.target_width, st.target_height,
                                fit_mode, st.allow_upscale, st.allow_downscale)
    IN  IF make_backup /\ ~dry_run /\ should_backup_for_plan(plan.decision, backup_mode)
        THEN IF write_ok
             THEN [decision |-> plan.decision] @@
                  save_backup_file(files, image_type, data, content_type, TRUE, NoInt, TRUE)
             ELSE [decision |-> plan.decision, raised |-> TRUE, files |-> files]
        ELSE [decision |-> plan.decision, raised |-> FALSE, files |-> files]

\* set_item_image_bytes(item_id, image_type, data, content_type, None) for
\* a Logo, Thumb or Primary image: an OK response replaces the item's image
set_single_item_image_bytes(srv, data, content_type, client_dry_run, fail_fast) ==
    IF client_dry_run THEN { [ret |-> "True", server |-> srv] }
    ELSE { [ret |-> "True", server |-> << [data EXCEPT !.ct = content_type] >>],
           [ret |-> IF fail_fast THEN Raised ELSE "False", server |-> srv] }

\* set_user_profile_image: delete_image(user_id, "Primary", None), then
\* _post_image.  A failed delete returns False, or raises under fail_fast;
\* a failed upload after the delete leaves the user without an image.
set_user_profile_image(srv, data, content_type, client_dry_run, fail_fast) ==
    IF client_dry_run THEN { [ret |-> "True", server |-> srv] }
    ELSE { [ret |-> "True", server |-> << [data EXCEPT !.ct = content_type] >>],
           [ret |-> IF fail_fast THEN Raised ELSE "False", server |-> srv],
           [ret |-> IF fail_fast THEN Raised ELSE "False", server |-> << >>] }

\* get_user_image: the user's image, or None when the request failed
get_user_image(srv) == { NoImage } \cup (IF Len(srv) > 0 THEN { srv[1] } ELSE {})

\* variant: the original is never uploaded for a NO_SCALE plan
handle_no_scale_never_uploads(decision, dry_run, force_upload, uploads, s, skip_when_no_scale, srv) ==
    LET counted == IF skip_when_no_scale THEN record_skip(s) ELSE record_success(s)
    IN  { [result |-> IF decision # "NO_SCALE" THEN None ELSE "True",
           stats |-> IF decision # "NO_SCALE" THEN s ELSE counted,
           uploaded |-> FALSE, ret |-> None, server |-> srv] }

\* handle_no_scale.  uploads are the outcomes of upload_fn.  The outcomes
\* give the value returned (None to continue, Raised when upload_fn raised),
\* the counters, whether upload_fn was called, what it returned and the
\* server afterwards.
handle_no_scale(decision, dry_run, force_upload, uploads, s, skip_when_no_scale, srv) ==
    LET counted == IF skip_when_no_scale THEN record_skip(s) ELSE record_success(s)
        quiet(res, st) == [result |-> res, stats |-> st, uploaded |-> FALSE,
                           ret |-> None, server |-> srv]
    IN  IF decision # "NO_SCALE" THEN { quiet(None, s) }
        ELSE IF dry_run THEN { quiet("True", counted) }
        ELSE IF ~force_upload THEN { quiet("True", counted) }
        ELSE { [result |-> CASE u.ret = "True" -> "True"
                             [] u.ret = "False" -> "False"
                             [] OTHER -> Raised,
                stats |-> CASE u.ret = "True" -> counted
                            [] u.ret = "False" -> record_error(s)
                            [] OTHER -> s,
                uploaded |-> TRUE, ret |-> u.ret, server |-> u.server] : u \in uploads }

\* The body shared by _process_item_image_payload and the try block of
\* normalize_profile_user: decode, plan and back up, handle NO_SCALE, then
\* upload the normalized payload unless this is a dry run.  Every exception
\* is caught and recorded as one error.  upload_op names the client method,
\* uploads_orig and uploads_norm are its outcomes for the original and for
\* the normalized payload.  The outcomes give the value returned, the
\* counters, the client calls made, the server and the backup directory.
process_image_payload(srv, files, s, image_type, data, content_type, fit_mode, st, dry_run, force_upload_noscale, make_backup, backup_mode, skip_when_no_scale, upload_op, payload, uploads_orig, uploads_norm, write_ok) ==
    LET planned == plan_and_backup_image(files, image_type, data, content_type, fit_mode,
                                         st, make_backup, backup_mode, dry_run, write_ok)
        failed(st2, cs, sv, fs) == [result |-> "False", stats |-> record_error(st2),
                                    calls |-> cs, server |-> sv, backups |-> fs]
    IN  IF ~data.ok THEN { failed(s, << >>, srv, files) }
        ELSE IF planned.raised THEN { failed(s, << >>, srv, files) }
        ELSE UNION {
               LET cs == IF h.uploaded
                         THEN << Call(upload_op, NoInt, [data EXCEPT !.ct = content_type], h.ret) >>
                         ELSE << >>
               IN  IF h.result = Raised
                   THEN { failed(h.stats, cs, h.server, planned.files) }
                   ELSE IF h.result # None
                   THEN { [result |-> h.result, stats |-> h.stats, calls |-> cs,
                           server |-> h.server, backups |-> planned.files] }
                   ELSE IF dry_run
                   THEN { [result |-> "True", stats |-> record_success(s), calls |-> << >>,
                           server |-> srv, backups |-> planned.files] }
                   ELSE { LET made == << Call(upload_op, NoInt, payload, u.ret) >>
                          IN  IF u.ret = "True"
                              THEN [result |-> "True", stats |-> record_success(s),
                                    calls |-> made, server |-> u.server,
                                    backups |-> planned.files]
                              ELSE failed(s, made, u.server, planned.files)
                          : u \in uploads_norm }
               : h \in handle_no_scale(planned.decision, dry_run, force_upload_noscale,
                                       uploads_orig, s, skip_when_no_scale, srv) }

\* variant: an exception of the decoder or of the client is not caught
process_item_image_payload_uncaught(srv, files, s, image_type, data, content_type, mode, st, dry_run, force_upload_noscale, make_backup, backup_mode, client_dry_run, fail_fast, write_ok) ==
    LET payload == build_normalized_image(data, mode, st)
        outcomes == process_image_payload(srv, files, s, image_type, data, content_type,
            fit_mode_for(mode), st, dry_run, force_upload_noscale, make_backup, backup_mode,
            mode \in {"logo", "thumb"} /\ ~force_upload_noscale,
            "set_item_image_bytes", payload,
            set_single_item_image_bytes(srv, data, content_type, client_dry_run, fail_fast),
            set_single_item_image_bytes(srv, payload, payload.ct, client_dry_run, fail_fast),
            write_ok)
    IN  { IF ~data.ok \/ (\E k \in DOMAIN o.calls : o.calls[k].ret = Raised)
          THEN [o EXCEPT !.result = Raised, !.stats = s]
          ELSE o : o \in outcomes }

\* _process_item_image_payload for a Logo, Thumb or Primary image
process_item_image_payload(srv, files, s, image_type, data, content_type, mode, st, dry_run, force_upload_noscale, make_backup, backup_mode, client_dry_run, fail_fast, write_ok) ==
    LET payload == build_normalized_image(data, mode, st)
    IN  process_image_payload(srv, files, s, image_type, data, content_type,
            fit_mode_for(mode), st, dry_run, force_upload_noscale, make_backup, backup_mode,
            mode \in {"logo", "thumb"} /\ ~force_upload_noscale,
            "set_item_image_bytes", payload,
            set_single_item_image_bytes(srv, data, content_type, client_dry_run, fail_fast),
            set_single_item_image_bytes(srv, payload, payload.ct, client_dry_run, fail_fast),
            write_ok)

\* the state a single-image operation leaves, given one of its outcomes
Finish(o, made) ==
    /\ result' = o.result
    /\ stats' = o.stats
    /\ calls' = made \o o.calls
    /\ server' = o.server
    /\ backups' = o.backups

\* normalize_item_image_api for cfg.image_type other than "Backdrop"
normalize_item_image_api ==
    /\ operation = "image"
    /\ pc = "image"
    /\ pc' = "done"
    /\ LET mode == IMAGE_TYPE_TO_MODE(cfg.image_type)
           quiet(s) == /\ stats' = s
                       /\ result' = "False"
                       /\ UNCHANGED << server, backups >>
       IN  IF mode = None \/ ~cfg.has_settings
           THEN quiet(record_warning(stats)) /\ UNCHANGED calls
           ELSE \E fetched \in get_item_image(server, 0) :
                  LET got == << Call("get_item_image", NoInt, fetched, None) >>
                  IN  IF fetched = NoImage
                      THEN quiet(record_error(stats)) /\ calls' = calls \o got
                      ELSE \E write_ok \in BOOLEAN :
                           \E o \in process_item_image_payload(server, backups, stats,
                                        cfg.image_type, fetched, fetched.ct, mode, cfg.settings,
                                        cfg.dry_run, cfg.force_upload_noscale, cfg.make_backup,
                                        cfg.backup_mode, cfg.client_dry_run, cfg.fail_fast,
                                        write_ok) :
                             Finish(o, calls \o got)
    /\ UNCHANGED << cfg, staging, locals, aborted, rmtree_failed, ghosts, others >>

\* normalize_profile_user.  cfg.has_id and cfg.has_tag tell whether the user
\* record has an Id and a PrimaryImageTag.
normalize_profile_user ==
    /\ operation = "profile"
    /\ pc = "profile"
    /\ pc' = "done"
    /\ LET quiet(s) == /\ stats' = s
                       /\ result' = "False"
                       /\ UNCHANGED << server, backups >>
       IN  IF ~cfg.has_id THEN quiet(record_warning(stats)) /\ UNCHANGED calls
           ELSE IF ~cfg.has_tag THEN quiet(record_skip(stats)) /\ UNCHANGED calls
           ELSE \E fetched \in get_user_image(server) :
                  LET got == << Call("get_user_image", NoInt, fetched, None) >>
                      payload == build_normalized_image(fetched, "profile", cfg.settings)
                  IN  IF fetched = NoImage
                      THEN quiet(record_error(stats)) /\ calls' = calls \o got
                      ELSE \E write_ok \in BOOLEAN :
                           \E o \in process_image_payload(server, backups, stats, "Primary",
                                        fetched, fetched.ct, "cover", cfg.settings, cfg.dry_run,
                                        cfg.force_upload_noscale, cfg.make_backup,
                                        cfg.backup_mode, FALSE, "set_user_profile_image",
                                        payload,
                                        set_user_profile_image(server, fetched, fetched.ct,
                                            cfg.client_dry_run, cfg.fail_fast),
                                        set_user_profile_image(server, payload, payload.ct,
                                            cfg.client_dry_run, cfg.fail_fast),
                                        write_ok) :
                             Finish(o, calls \o got)
    /\ UNCHANGED << cfg, staging, locals, aborted, rmtree_failed, ghosts, others >>

(***************************************************************************)
(* backup.py: restore_from_backups.  backups is the backup root as a set   *)
(* of files [item, name, data], item being the name of the directory that  *)
(* holds the file; server is the list of images the server holds, each     *)
(* [item, image_type, data].                                               *)
(***************************************************************************)
\* str.lower() on the stems that occur
Lower(letters) ==
    CASE letters = "Backdrop" -> "backdrop"
      [] letters = "LOGO" -> "logo"
      [] OTHER -> letters

ImageTypes == {"Logo", "Thumb", "Primary", "Backdrop"}

\* image_type_from_filename: the type whose configured stem equals the
\* lower-cased stem, "Backdrop" also with digits after the stem; Raised for
\* the ValueError
image_type_from_filename(name) ==
    LET stem == Lower(name.letters)
        matching == { t \in ImageTypes :
                        /\ stem = FILENAME_CONFIG(t)
                        /\ (name.digits = << >> \/ t = "Backdrop") }
    IN  IF matching = {} THEN Raised ELSE CHOOSE t \in matching : TRUE

\* _extract_backdrop_index: the stem must start with the configured stem as
\* written; no suffix is index 0, digits are the index, None otherwise
extract_backdrop_index(name) ==
    IF name.letters # FILENAME_CONFIG("Backdrop") THEN NoInt
    ELSE IF name.digits = << >> THEN 0
    ELSE DigitsValue(name.digits)

\* content_type_from_extension; Raised for the ValueError
content_type_from_extension(extension) ==
    CASE extension = ".png"  -> "image/png"
      [] extension = ".jpg"  -> "image/jpeg"
      [] extension = ".jpeg" -> "image/jpeg"
      [] extension = ".webp" -> "image/webp"
      [] OTHER -> Raised

\* the order of sorted(paths) on the files of one directory whose stems are
\* equal: the order of the extensions as strings
ExtensionRank(extension) ==
    CASE extension = ".gif"  -> 1
      [] extension = ".jpeg" -> 2
      [] extension = ".jpg"  -> 3
      [] extension = ".png"  -> 4
      [] OTHER -> 5

\* variant: the last file of the sorted list is taken
sorted_last(paths) ==
    CHOOSE f \in paths : \A g \in paths : ExtensionRank(g.name.ext) <= ExtensionRank(f.name.ext)

\* sorted(paths)[0]
sorted_first(paths) ==
    CHOOSE f \in paths : \A g \in paths : ExtensionRank(f.name.ext) <= ExtensionRank(g.name.ext)

RestoreCall(op, item, image_type, index, data, ret) ==
    [op |-> op, item |-> item, image_type |-> image_type, index |-> index,
     data |-> data, ret |-> ret]

Held(item, image_type, data) == [item |-> item, image_type |-> image_type, data |-> data]

WithoutImage(srv, item, image_type) ==
    SelectSeq(srv, LAMBDA e : ~(e.item = item /\ e.image_type = image_type))

\* The upload of _restore_backup_payload: set_user_profile_image for the
\* profile mode, set_item_image_bytes otherwise.  A backdrop is added to
\* the item's backdrops, any other image replaces the one held.
restore_upload(srv, item, image_type, data, content_type, client_dry_run, fail_fast) ==
    LET sent == Held(item, image_type, [data EXCEPT !.ct = content_type])
        failure == IF fail_fast THEN Raised ELSE "False"
    IN  IF client_dry_run THEN { [ret |-> "True", server |-> srv] }
        ELSE { [ret |-> "True",
                server |-> IF image_type = "Backdrop" THEN Append(srv, sent)
                           ELSE Append(WithoutImage(srv, item, image_type), sent)],
               [ret |-> failure, server |-> srv] }
             \cup (IF IMAGE_TYPE_TO_MODE(image_type) = "profile"
                   THEN { [ret |-> failure, server |-> WithoutImage(srv, item, image_type)] }
                   ELSE {})

\* variant: the upload is made in a dry run too
restore_backup_payload_ignoring_dry_run(file, image_type, backdrop_index, s, srv, dry_run, client_dry_run, fail_fast) ==
    LET content_type == content_type_from_extension(file.name.ext)
        op == IF IMAGE_TYPE_TO_MODE(image_type) = "profile"
              THEN "set_user_profile_image" ELSE "set_item_image_bytes"
        read(data) == RestoreCall("read_bytes", file.item, image_type, backdrop_index,
                                  data, None)
    IN  { [ret |-> u.ret,
           stats |-> CASE u.ret = "True" -> record_success(s)
                       [] u.ret = "False" -> record_error(s)
                       [] OTHER -> s,
           calls |-> << read(file.data),
                        RestoreCall(op, file.item, image_type, backdrop_index,
                                    [file.data EXCEPT !.ct = content_type], u.ret) >>,
           server |-> u.server]
          : u \in restore_upload(srv, file.item, image_type, file.data,
                                 IF content_type = Raised THEN "" ELSE content_type,
                                 client_dry_run, fail_fast) }

\* _restore_backup_payload: the outcomes, each with the value returned
\* (Raised when an exception escapes), the counters, the calls made (the
\* read of the file, which may fail, and the client call) and the server
\* afterwards.
restore_backup_payload(file, image_type, backdrop_index, s, srv, dry_run, client_dry_run, fail_fast) ==
    LET content_type == content_type_from_extension(file.name.ext)
        op == IF IMAGE_TYPE_TO_MODE(image_type) = "profile"
              THEN "set_user_profile_image" ELSE "set_item_image_bytes"
        read(data) == RestoreCall("read_bytes", file.item, image_type, backdrop_index,
                                  data, None)
        quiet(ret, st) == [ret |-> ret, stats |-> st, calls |-> << read(file.data) >>,
                           server |-> srv]
    IN  { [ret |-> "False", stats |-> record_error(s), calls |-> << read(NoImage) >>,
           server |-> srv] }
        \cup (IF dry_run THEN { quiet("True", record_success(s)) }
              ELSE IF content_type = Raised THEN { quiet(Raised, s) }
              ELSE { [ret |-> u.ret,
                      stats |-> CASE u.ret = "True" -> record_success(s)
                                  [] u.ret = "False" -> record_error(s)
                                  [] OTHER -> s,
                      calls |-> << read(file.data),
                                   RestoreCall(op, file.item, image_type, backdrop_index,
                                               [file.data EXCEPT !.ct = content_type],
                                               u.ret) >>,
                      server |-> u.server]
                     : u \in restore_upload(srv, file.item, image_type, file.data,
                                            content_type, client_dry_run, fail_fast) })

\* directory names shorter than two characters are not item ids
ShortIds == {"x"}

\* files_by_type of every directory walked: the groups (item, image type)
\* with a recognised file name whose mode is among the operations
GroupOf(f) == << f.item, image_type_from_filename(f.name) >>

Eligible(f) ==
    /\ f.item \notin ShortIds
    /\ image_type_from_filename(f.name) # Raised
    /\ IMAGE_TYPE_TO_MODE(image_type_from_filename(f.name)) \in cfg.operations

Groups == { GroupOf(f) : f \in { g \in backups : Eligible(g) } }

Paths(group) == { f \in backups : Eligible(f) /\ GroupOf(f) = group }

Entered == { visited[i] : i \in DOMAIN visited }

\* The groups the walk may take next: a directory is finished before the
\* next one is entered; the order of the directories and of the types in
\* one directory is the file system's.
NextGroups ==
    LET todo == Groups \ Entered
        open == { g \in todo : \E v \in Entered : v[1] = g[1] }
    IN  IF open # {} THEN open ELSE todo

\* variant: a rejected backdrop group ends the whole restore
RejectGroup_stop ==
    /\ stats' = record_error(stats)
    /\ pc' = "done"
    /\ UNCHANGED << idx, result, calls, server >>

\* the group is skipped with one error
RejectGroup ==
    /\ stats' = record_error(stats)
    /\ pc' = "restore"
    /\ UNCHANGED << idx, result, calls, server >>

\* variant: the indices are not checked
backdrop_group_rejected_never(paths) == FALSE

\* _restore_backdrop_group, lines 329-367: an invalid name, a duplicate
\* index, or indices that are not 0..k-1
backdrop_group_rejected(paths) ==
    LET indices == { extract_backdrop_index(f.name) : f \in paths }
    IN  \/ NoInt \in indices
        \/ \E f, g \in paths :
             f # g /\ extract_backdrop_index(f.name) = extract_backdrop_index(g.name)
        \/ indices # 0..(Cardinality(paths) - 1)

\* restore_from_backups enters the Backdrop group of a directory:
\* _restore_backdrop_group up to the upload loop
restore_backdrop_group ==
    /\ operation = "restore"
    /\ pc = "restore"
    /\ \E g \in NextGroups :
         /\ g[2] = "Backdrop"
         /\ visited' = Append(visited, g)
         /\ IF backdrop_group_rejected(Paths(g))
            THEN RejectGroup
            ELSE /\ pc' = "restore_backdrops"
                 /\ idx' = 0
                 /\ UNCHANGED << stats, result, calls, server >>
    /\ UNCHANGED << cfg, staging, backups, staged_files, normalized_payloads,
                    deletions_started, any_upload_failed, aborted, rmtree_failed,
                    ghosts, operation, preview >>

\* variant: the loop stops at the first failed upload
AfterBackdropUpload_stop(o, k) ==
    IF o.ret = Raised THEN pc' = "done" /\ result' = Raised /\ idx' = idx
    ELSE /\ result' = result
         /\ idx' = idx + 1
         /\ pc' = IF idx + 1 = k \/ o.ret = "False" THEN "restore" ELSE "restore_backdrops"

\* where the upload loop goes after one upload of k: on, back to the walk
\* after the last one, or out with the exception
AfterBackdropUpload(o, k) ==
    IF o.ret = Raised THEN pc' = "done" /\ result' = Raised /\ idx' = idx
    ELSE /\ result' = result
         /\ idx' = idx + 1
         /\ pc' = IF idx + 1 = k THEN "restore" ELSE "restore_backdrops"

\* one pass of the upload loop of _restore_backdrop_group (lines 369-382)
restore_backdrop_upload ==
    /\ operation = "restore"
    /\ pc = "restore_backdrops"
    /\ LET paths == Paths(visited[Len(visited)])
           file == CHOOSE f \in paths : extract_backdrop_index(f.name) = idx
       IN  \E o \in restore_backup_payload(file, "Backdrop", idx, stats, server,
                        cfg.dry_run, cfg.client_dry_run, cfg.fail_fast) :
             /\ stats' = o.stats
             /\ calls' = calls \o o.calls
             /\ server' = o.server
             /\ AfterBackdropUpload(o, Cardinality(paths))
    /\ UNCHANGED << cfg, staging, backups, staged_files, normalized_payloads,
                    deletions_started, any_upload_failed, aborted, rmtree_failed,
                    ghosts, others >>

\* _restore_single_image_group: one error when there are several files,
\* then the first of the sorted files is restored
restore_single_image_group ==
    /\ operation = "restore"
    /\ pc = "restore"
    /\ \E g \in NextGroups :
         /\ g[2] # "Backdrop"
         /\ visited' = Append(visited, g)
         /\ LET paths == Paths(g)
                noted == IF Cardinality(paths) > 1 THEN record_error(stats) ELSE stats
            IN  \E o \in restore_backup_payload(sorted_first(paths), g[2], NoInt, noted,
                             server, cfg.dry_run, cfg.client_dry_run, cfg.fail_fast) :
                  /\ stats' = o.stats
                  /\ calls' = calls \o o.calls
                  /\ server' = o.server
                  /\ IF o.ret = Raised
                     THEN pc' = "done" /\ result' = Raised
                     ELSE pc' = "restore" /\ result' = result
    /\ UNCHANGED << cfg, staging, backups, locals, aborted, rmtree_failed,
                    ghosts, operation, preview >>

\* the walk is over: restore_from_backups returns None
restore_from_backups_end ==
    /\ operation = "restore"
    /\ pc = "restore"
    /\ NextGroups = {}
    /\ pc' = "done"
    /\ UNCHANGED << cfg, server, staging, backups, locals, result, stats, calls,
                    aborted, rmtree_failed, ghosts, others >>

(***************************************************************************)
(* The operations of the tool side by side: the backdrop set of an item,   *)
(* a single image of an item, a user's profile image, and a restore.  A    *)
(* run may be followed by a real run of the same operation with the same   *)
(* arguments; after a dry run this is the run the dry run previewed.       *)
(***************************************************************************)
\* largest backdrop count and server list of the backdrop operation here
MaxOpsBackdrops == 2
\* largest number of files under the backup root at the start of a restore
MaxFiles == 3
\* the same where the restore stands beside the other operations
MaxOpsFiles == 2

OpsFields(dry, backup, count, image_types, forced, ids, tags, operation_sets) ==
    [ dry_run : dry, make_backup : backup, backup_mode : BackupModes,
      has_mode : {TRUE}, has_settings : BOOLEAN, settings : SettingsPool,
      backdrop_count : count, client_dry_run : BOOLEAN, fail_fast : BOOLEAN,
      image_type : image_types, force_upload_noscale : forced,
      has_id : ids, has_tag : tags, operations : operation_sets ]

\* the arguments of each operation; the fields an operation does not read
\* have one value
OpsConfigs(oper) ==
    LET all == CASE oper = "backdrops" ->
                      OpsFields(BOOLEAN, BOOLEAN, 0..MaxOpsBackdrops, {"Backdrop"},
                                {FALSE}, {TRUE}, {TRUE}, {{}})
                 [] oper = "image" ->
                      OpsFields(BOOLEAN, BOOLEAN, {1}, {"Logo", "Thumb", "Primary", "Banner"},
                                BOOLEAN, {TRUE}, {TRUE}, {{}})
                 [] oper = "profile" ->
                      OpsFields(BOOLEAN, BOOLEAN, {1}, {"Primary"},
                                BOOLEAN, BOOLEAN, BOOLEAN, {{}})
                 [] OTHER ->
                      OpsFields(BOOLEAN, {FALSE}, {1}, {"Backdrop"}, {FALSE}, {TRUE}, {TRUE},
                                { {"logo", "thumb", "profile", "backdrop"},
                                  {"logo", "backdrop"} })
    IN  { c \in all :
            /\ (~c.make_backup => c.backup_mode = "partial")
            /\ (~c.has_settings => c.settings.allow_upscale)
            /\ (oper \in {"profile", "restore"} => c.has_settings)
            /\ (oper = "restore" => c.settings.allow_upscale)
            /\ (c.client_dry_run => ~c.fail_fast)
            /\ (~c.has_id => c.has_tag) }

\* the files a backup root may hold at the start of a restore: data k under
\* its name in the directory of an item
RestorePool ==
    LET file(item, letters, digits, ext, k) ==
            [item |-> item, name |-> FileName(letters, digits, ext),
             data |-> [id |-> k, w |-> 4, h |-> 2, ct |-> "", ok |-> TRUE, norm |-> FALSE]]
    IN  { file("a1", "backdrop", << >>, ".jpg", 1),
          file("a1", "backdrop", << 1 >>, ".jpg", 2),
          file("a1", "backdrop", << 2 >>, ".png", 3),
          file("a1", "backdrop", << 0, 1 >>, ".webp", 4),
          file("a1", "Backdrop", << 1 >>, ".jpg", 5),
          file("a1", "logo", << >>, ".png", 6),
          file("a1", "logo", << >>, ".jpg", 7),
          file("a1", "logo", << >>, ".gif", 8),
          file("a1", "profile", << >>, ".webp", 9),
          file("a1", "banner", << >>, ".jpg", 10),
          file("b2", "backdrop", << >>, ".jpg", 11),
          file("b2", "landscape", << >>, ".jpg", 13),
          file("x", "logo", << >>, ".png", 14) }

StartPc(oper) ==
    CASE oper = "backdrops" -> "start"
      [] oper = "image" -> "image"
      [] oper = "profile" -> "profile"
      [] OTHER -> "restore"

InitWith(operations, max_files) ==
    /\ operation \in operations
    /\ cfg \in OpsConfigs(operation)
    /\ \/ /\ operation = "backdrops"
          /\ server \in DistinctSeqsUpTo(ImagePool, MaxOpsBackdrops)
          /\ backups = {}
       \/ /\ operation \in {"image", "profile"}
          /\ server \in SeqsUpTo(ImagePool, 1)
          /\ backups = {}
       \/ /\ operation = "restore"
          /\ server = << >>
          /\ backups \in { fs \in SUBSET RestorePool : Cardinality(fs) <= max_files }
    /\ staging = NoStaging
    /\ stats = NoStats
    /\ pc = StartPc(operation)
    /\ idx = 0
    /\ staged_files = << >>
    /\ normalized_payloads = << >>
    /\ deletions_started = FALSE
    /\ any_upload_failed = FALSE
    /\ result = None
    /\ calls = << >>
    /\ aborted = None
    /\ rmtree_failed = FALSE
    /\ orig_server = server
    /\ replaced_orig = [i \in 0..(MaxTotal - 1) |-> NoImage]
    /\ runs = 1
    /\ visited = << >>
    /\ preview = NoPreview

InitOps == InitWith({"backdrops", "image", "profile", "restore"}, MaxOpsFiles)

is_fetch(c) == c.op \in {"get_item_image", "get_user_image", "read_bytes"}

\* what the fetches of this run returned, in order
Fetched ==
    LET fs == SelectSeq(calls, is_fetch) IN [i \in DOMAIN fs |-> fs[i].data]

\* The tool is run again on what the last run left: the same operation with
\* the same arguments, as a real run.  A dry run is followed by the run it
\* previewed; the runs on a single image are also repeated.
RunAgain ==
    /\ pc = "done"
    /\ runs < MaxRuns
    /\ cfg.dry_run \/ operation \in {"image", "profile"}
    /\ runs' = runs + 1
    /\ cfg' = [cfg EXCEPT !.dry_run = FALSE]
    /\ preview' = IF cfg.dry_run
                  THEN [made |-> TRUE, stats |-> stats, fetched |-> Fetched]
                  ELSE NoPreview
    /\ stats' = NoStats
    /\ pc' = StartPc(operation)
    /\ idx' = 0
    /\ staged_files' = << >>
    /\ normalized_payloads' = << >>
    /\ deletions_started' = FALSE
    /\ any_upload_failed' = FALSE
    /\ result' = None
    /\ calls' = << >>
    /\ aborted' = None
    /\ rmtree_failed' = FALSE
    /\ visited' = << >>
    /\ orig_server' = server
    /\ UNCHANGED << server, staging, backups, replaced_orig, operation >>

NextOps ==
    \/ (operation = "backdrops" /\ Next)
    \/ normalize_item_image_api
    \/ normalize_profile_user
    \/ restore_backdrop_group
    \/ restore_backdrop_upload
    \/ restore_single_image_group
    \/ restore_from_backups_end
    \/ RunAgain

SpecOps == InitOps /\ [][NextOps]_vars

(***************************************************************************)
(* One restore_from_backups over a backup root.                            *)
(***************************************************************************)
InitRestore == InitWith({"restore"}, MaxFiles)

NextRestore ==
    \/ restore_backdrop_group
    \/ restore_backdrop_upload
    \/ restore_single_image_group
    \/ restore_from_backups_end

SpecRestore == InitRestore /\ [][NextRestore]_vars

(***************************************************************************)
(* Properties of dry runs, backups and restore.                            *)
(***************************************************************************)
WriteOps == {"set_item_image_bytes", "set_user_profile_image", "delete_image"}

Writes == SelectSeq(calls, LAMBDA c : c.op \in WriteOps)

\* C11: in a run with dry_run=True no operation (single item image, backdrop
\* set, profile image, restore) calls set_item_image_bytes,
\* set_user_profile_image or delete_image.
C11_DryRunNoWrites == cfg.dry_run => Writes = << >>

\* a dry-run restore went over two eligible files and counted them
C11_Witness ==
    /\ operation = "restore"
    /\ cfg.dry_run
    /\ pc = "done"
    /\ stats.successes = 2
    /\ Len(calls) = 2

\* C13: a normalization run with dry_run=True creates no staging directory,
\* no staged file and no backup file, even when make_backup is enabled and
\* the backup policy selects the image.
C13_DryRunNoFiles ==
    (cfg.dry_run /\ operation \in {"backdrops", "image", "profile"})
        => (staging = NoStaging /\ backups = {})

\* a dry run with backups in full mode processed a fetched image
C13_Witness ==
    /\ operation = "image"
    /\ cfg.dry_run
    /\ cfg.make_backup
    /\ cfg.backup_mode = "full"
    /\ pc = "done"
    /\ result = "True"
    /\ stats.successes + stats.skipped = 1

\* every fetch of this run returned what the same fetch returned in the dry
\* run before it
SameFetchResults ==
    \A i \in DOMAIN Fetched : i \in DOMAIN preview.fetched /\ Fetched[i] = preview.fetched[i]

AllWritesSucceeded == \A i \in DOMAIN Writes : Writes[i].ret = "True"

SameCounters ==
    /\ stats.successes = preview.stats.successes
    /\ stats.skipped = preview.stats.skipped

\* C12: for the same items, settings and fetch results, and with every write
\* call of the real run succeeding, the successes and skipped counters after
\* a dry run equal those after the real run (single images, backdrop sets,
\* restores).
C12_DryRunPreview ==
    (preview.made /\ pc = "done" /\ SameFetchResults /\ AllWritesSucceeded) => SameCounters

\* the indices the names of the backdrop backup files encode
BackupIndices == { f.name[1] : f \in backups }

\* C14: after any backdrop normalization run with backups enabled, the
\* item's backdrop backup files have the indices 0..k-1 with no gap and no
\* duplicate, so that a later restore accepts them.
C14_BackupIndicesContiguous ==
    (pc = "done" /\ Ran /\ ~cfg.dry_run /\ cfg.make_backup)
        => /\ BackupIndices = 0..(Cardinality(backups) - 1)
           /\ Cardinality(BackupIndices) = Cardinality(backups)

\* C15: after any sequence of backup saves made by normalization runs, the
\* backup store holds at most one file per (item, non-backdrop image type),
\* whatever content types the successive originals had.
C15_OneBackupPerImage ==
    operation \in {"image", "profile"}
        => \A f, g \in backups : f.name.letters = g.name.letters => f = g

\* the backdrop files of a group encode exactly the indices 0..k-1, one
\* file each
ExactIndices(paths) ==
    \A i \in 0..(Cardinality(paths) - 1) :
        Cardinality({ f \in paths : extract_backdrop_index(f.name) = i }) = 1

\* every name is a backdrop name, but the indices have a gap, lack 0 or
\* repeat
BadIndices(paths) ==
    /\ \A f \in paths : extract_backdrop_index(f.name) # NoInt
    /\ ~ExactIndices(paths)

BackdropUploadsOf(item) ==
    SelectSeq(calls, LAMBDA c : c.op = "set_item_image_bytes" /\ c.item = item
                                 /\ c.image_type = "Backdrop")

\* the walk enters group g in this step
Enters(g) == g \notin Entered /\ g \in Entered'

\* C16: when the indices of an item's backdrop backups are not exactly
\* 0..k-1 (a gap, index 0 missing, two files with the same index), restore
\* uploads none of that item's backdrops and records exactly one error for
\* the group.
C16_BadIndicesRejected ==
    /\ [](\A g \in Groups :
            (g[2] = "Backdrop" /\ BadIndices(Paths(g))) => BackdropUploadsOf(g[1]) = << >>)
    /\ [][\A g \in Groups :
            (g[2] = "Backdrop" /\ BadIndices(Paths(g)) /\ Enters(g))
                => /\ stats'.errors = stats.errors + 1
                   /\ stats'.successes = stats.successes
                   /\ calls' = calls
                   /\ pc' = "restore"]_vars

\* a real restore ended after rejecting a backdrop group with two files of
\* the same index, with one error and no upload
C16_Witness ==
    /\ operation = "restore"
    /\ ~cfg.dry_run
    /\ pc = "done"
    /\ result = None
    /\ Cardinality(backups) = 2
    /\ \E g \in Entered :
         /\ g[2] = "Backdrop"
         /\ BadIndices(Paths(g))
         /\ Cardinality(Paths(g)) = 2
         /\ \A f \in Paths(g) : extract_backdrop_index(f.name) = 1
    /\ stats.errors = 1
    /\ calls = << >>

BackdropReadsOf(item) ==
    SelectSeq(calls, LAMBDA c : c.op = "read_bytes" /\ c.item = item
                                 /\ c.image_type = "Backdrop")

\* the file of a group whose name encodes index i
FileAt(paths, i) == CHOOSE f \in paths : extract_backdrop_index(f.name) = i

ExactBackdropGroups ==
    { g \in Groups : /\ g[2] = "Backdrop"
                     /\ \A f \in Paths(g) : extract_backdrop_index(f.name) # NoInt
                     /\ ExactIndices(Paths(g)) }

\* the bytes sent for a backup file: its bytes under the content type of
\* its extension
SentFor(f) == [f.data EXCEPT !.ct = content_type_from_extension(f.name.ext)]

LexFirst(paths) ==
    CHOOSE f \in paths : \A g \in paths : ExtensionRank(f.name.ext) <= ExtensionRank(g.name.ext)

\* the calls made in this step
NewCalls == SubSeq(calls', Len(calls) + 1, Len(calls'))

NewWrites == SelectSeq(NewCalls, LAMBDA c : c.op \in WriteOps)

NewReads == SelectSeq(NewCalls, LAMBDA c : c.op = "read_bytes")

DuplicateGroups ==
    { g \in Groups : g[2] # "Backdrop" /\ Cardinality(Paths(g)) > 1 }

\* the upload of _restore_single_image_group is the one of the first file
UploadsFirst(g) ==
    /\ Len(NewWrites) = 1
    /\ NewWrites[1].item = g[1]
    /\ NewWrites[1].image_type = g[2]
    /\ NewWrites[1].data = SentFor(LexFirst(Paths(g)))

\* C18 as stated: when more than one backup file exists for the same (item,
\* non-backdrop type), restore records exactly one error for the duplicate
\* and performs exactly one upload, of the lexicographically first file.
C18_DuplicateFirstUploaded ==
    [][\A g \in DuplicateGroups :
         Enters(g) => /\ stats'.errors >= stats.errors + 1
                      /\ UploadsFirst(g)]_vars

\* C18 amended: one error is recorded for the duplicate (a second one only
\* when the first file cannot be read or its upload returns False), only
\* the first file is read, and in a non-dry-run restore where that file can
\* be read and has a supported extension exactly one upload is made, of
\* that file; otherwise none is made.
C18_DuplicateFirstUploadedIfPossible ==
    [][\A g \in DuplicateGroups :
         Enters(g) =>
           LET first == LexFirst(Paths(g))
               possible == /\ ~cfg.dry_run
                           /\ NewReads[1].data # NoImage
                           /\ content_type_from_extension(first.name.ext) # Raised
               second == \/ NewReads[1].data = NoImage
                         \/ (Len(NewWrites) = 1 /\ NewWrites[1].ret = "False")
           IN  /\ Len(NewReads) = 1
               /\ NewReads[1].data \in {first.data, NoImage}
               /\ stats'.errors = stats.errors + 1 + (IF second THEN 1 ELSE 0)
               /\ IF possible THEN UploadsFirst(g) ELSE NewWrites = << >>]_vars

\* a real restore found logo.jpg and logo.png, recorded the duplicate and
\* uploaded logo.jpg
C18_Witness ==
    /\ operation = "restore"
    /\ ~cfg.dry_run
    /\ pc = "done"
    /\ \E g \in DuplicateGroups :
         /\ g \in Entered
         /\ Len(Writes) = 1
         /\ Writes[1].data = SentFor(LexFirst(Paths(g)))
         /\ Writes[1].data.ct = "image/jpeg"
         /\ Writes[1].ret = "True"
    /\ stats.errors = 1
    /\ stats.successes = 1

ReadsOf(g) ==
    SelectSeq(calls, LAMBDA c : c.op = "read_bytes" /\ c.item = g[1] /\ c.image_type = g[2])

RejectedGroups == { g \in Groups : g[2] = "Backdrop" /\ g \notin ExactBackdropGroups }

\* every eligible group was taken up: a rejected backdrop group without a
\* read, any other backdrop group with a read of each file, a single image
\* group with the read of one file
AllGroupsProcessed ==
    \A g \in Groups :
        /\ g \in Entered
        /\ Len(ReadsOf(g)) = IF g \in RejectedGroups THEN 0
                             ELSE IF g[2] = "Backdrop" THEN Cardinality(Paths(g))
                             ELSE 1

SomeGroupFailed ==
    \/ RejectedGroups \cap Entered # {}
    \/ \E i \in DOMAIN Writes : Writes[i].ret # "True"

RawBackupModes ==
    {None, "full", "FULL", " Full ", "partial", "Partial", "partial ", "off", "OFF", "", " "}

InitPlan ==
    /\ operation = "plan"
    /\ cfg \in [settings : SettingsPool, fit_mode : {"fit", "cover"},
                backup_mode : RawBackupModes]
    /\ server \in [1..1 -> ImagePool]
    /\ backups = {}
    /\ staging = NoStaging
    /\ stats = NoStats
    /\ pc = "plan"
    /\ idx = 0
    /\ staged_files = << >>
    /\ normalized_payloads = << >>
    /\ deletions_started = FALSE
    /\ any_upload_failed = FALSE
    /\ result = [decision |-> None, backup |-> FALSE]
    /\ calls = << >>
    /\ aborted = None
    /\ rmtree_failed = FALSE
    /\ orig_server = server
    /\ replaced_orig = [i \in 0..(MaxTotal - 1) |-> NoImage]
    /\ runs = 1
    /\ visited = << >>
    /\ preview = NoPreview

\* the plan of the image and the decision to back it up
PlanBackup ==
    /\ pc = "plan"
    /\ pc' = "done"
    /\ LET plan == make_scale_plan(server[1].w, server[1].h, cfg.settings.target_width,
                                   cfg.settings.target_height, cfg.fit_mode,
                                   cfg.settings.allow_upscale, cfg.settings.allow_downscale)
       IN  result' = [decision |-> plan.decision,
                      backup |-> should_backup_for_plan(plan.decision, cfg.backup_mode)]
    /\ UNCHANGED << cfg, server, staging, backups, locals, stats, calls, aborted,
                    rmtree_failed, ghosts, others >>

NextPlan == PlanBackup

SpecPlan == InitPlan /\ [][NextPlan]_vars

\* the spellings of 'full': the word in any case, with or without blanks
\* around it
FullSpellings == {"full", "FULL", " Full "}

\* C20: should_backup_for_plan returns True for every decision when the
\* mode is 'full'; for 'partial', and for None and unknown mode strings,
\* which normalize to 'partial', it returns True exactly when the decision
\* is not NO_SCALE.
C20_BackupPolicy ==
    pc = "done" =>
        IF cfg.backup_mode \in FullSpellings
        THEN result.backup = TRUE
        ELSE result.backup = (result.decision # "NO_SCALE")

\* an unknown mode string fell back to partial and left an image that needs
\* no scaling without a backup
C20_Witness ==
    /\ pc = "done"
    /\ cfg.backup_mode = "off"
    /\ result.decision = "NO_SCALE"
    /\ result.backup = FALSE

(***************************************************************************)
(* save_backup on its own: a sequence of calls on the backup directory of  *)
(* one item.  result holds the last call: its arguments, the directory     *)
(* before it and what it did.                                              *)
(***************************************************************************)
\* number of save_backup calls in a row
MaxSaves == 2

NoSave ==
    [made |-> FALSE, image_type |-> None, data |-> NoImage, content_type |-> None,
     overwrite_existing |-> FALSE, backdrop_index |-> NoInt, read_ok |-> TRUE,
     before |-> {}, raised |-> FALSE, wrote |-> FALSE]

InitSave ==
    /\ operation = "save"
    /\ cfg = [dry_run |-> FALSE]
    /\ server = << >>
    /\ backups = {}
    /\ staging = NoStaging
    /\ stats = NoStats
    /\ pc = "save"
    /\ idx = 0
    /\ staged_files = << >>
    /\ normalized_payloads = << >>
    /\ deletions_started = FALSE
    /\ any_upload_failed = FALSE
    /\ result = NoSave
    /\ calls = << >>
    /\ aborted = None
    /\ rmtree_failed = FALSE
    /\ orig_server = server
    /\ replaced_orig = [i \in 0..(MaxTotal - 1) |-> NoImage]
    /\ runs = 1
    /\ visited = << >>
    /\ preview = NoPreview

\* one call of save_backup
SaveBackup ==
    /\ pc = "save"
    /\ idx < MaxSaves
    /\ idx' = idx + 1
    /\ \E image_type \in {"Logo", "Backdrop"}, data \in ImagePool,
          overwrite_existing \in BOOLEAN, backdrop_index \in {NoInt, 0, 1},
          read_ok \in BOOLEAN :
         LET o == save_backup_file(backups, image_type, data, data.ct,
                                   overwrite_existing, backdrop_index, read_ok)
         IN  /\ backups' = o.files
             /\ result' = [made |-> TRUE, image_type |-> image_type, data |-> data,
                           content_type |-> data.ct,
                           overwrite_existing |-> overwrite_existing,
                           backdrop_index |-> backdrop_index, read_ok |-> read_ok,
                           before |-> backups,
                           raised |-> o.raised, wrote |-> o.wrote]
    /\ UNCHANGED << cfg, server, staging, pc, staged_files, normalized_payloads,
                    deletions_started, any_upload_failed, stats, calls, aborted,
                    rmtree_failed, ghosts, others >>

NextSave == SaveBackup

SpecSave == InitSave /\ [][NextSave]_vars

\* the target path of the last save_backup call
SavedPath ==
    backup_file_name(result.image_type,
                     guess_extension_from_content_type(result.content_type),
                     result.backdrop_index)

\* what save_backup does to the file at the target path; rewritten tells when
\* an existing file under overwrite_existing is written again
SaveBackupEffect(rewritten) ==
    (result.made /\ ~result.raised) =>
        /\ { f \in backups : f.name # SavedPath } = { f \in result.before : f.name # SavedPath }
        /\ FileExists(backups, SavedPath)
        /\ IF ~FileExists(result.before, SavedPath)
           THEN ReadFile(backups, SavedPath) = result.data /\ result.wrote
           ELSE IF ~result.overwrite_existing
           THEN /\ ReadFile(backups, SavedPath) = ReadFile(result.before, SavedPath)
                /\ ~result.wrote
           ELSE /\ ReadFile(backups, SavedPath) = result.data
                /\ result.wrote = rewritten

PolicySelects(img, fit_mode) ==
    /\ img.ok
    /\ should_backup_for_plan(
           make_scale_plan(img.w, img.h, cfg.settings.target_width,
                           cfg.settings.target_height, fit_mode,
                           cfg.settings.allow_upscale, cfg.settings.allow_downscale).decision,
           cfg.backup_mode)

\* a backdrop run has issued a delete or an upload only if every backdrop the
\* policy selects has its original bytes in the backup store
BackdropsBackedUpBeforeWrites ==
    (operation = "backdrops" /\ ~cfg.dry_run /\ cfg.make_backup /\ Writes # << >>) =>
        \A i \in 0..(total - 1) :
            (i < Len(orig_server) /\ PolicySelects(orig_server[i + 1], "cover")) =>
                LET path == backup_path_for_image(
                                guess_extension_from_content_type(orig_server[i + 1].ct), i)
                IN  /\ FileExists(backups, path)
                    /\ ReadFile(backups, path) = orig_server[i + 1]

\* a single-image run
SingleImageStep == pc \in {"image", "profile"} /\ pc' = "done"

\* the bytes the single-image run fetched
FetchedNow == NewCalls[1].data

\* a single-image run issues an upload for an image the policy selects only
\* with the original bytes in the backup store afterwards
SingleImageBackedUpBeforeWrites ==
    (SingleImageStep /\ ~cfg.dry_run /\ cfg.make_backup /\ NewWrites # << >>) =>
        LET image_type == IF operation = "profile" THEN "Primary" ELSE cfg.image_type
            fit_mode == IF operation = "profile" THEN "cover"
                        ELSE fit_mode_for(IMAGE_TYPE_TO_MODE(cfg.image_type))
            path == backup_file_name(image_type,
                        guess_extension_from_content_type(FetchedNow.ct), NoInt)
        IN  PolicySelects(FetchedNow, fit_mode) =>
                /\ FileExists(backups', path)
                /\ ReadFile(backups', path) = FetchedNow

\* C22: in a non-dry-run with make_backup, whenever the policy selects an
\* image, its original bytes are in the backup store before any delete or
\* upload call is issued for it; if the backup write raises, no delete and no
\* upload is issued for it.
C22_BackupBeforeWrite ==
    [](BackdropsBackedUpBeforeWrites) /\ [][SingleImageBackedUpBeforeWrites]_vars

\* a real backdrop run with backups has saved an original and then deleted
C22_Witness ==
    /\ operation = "backdrops" /\ ~cfg.dry_run /\ cfg.make_backup /\ ~cfg.client_dry_run
    /\ total = 2
    /\ Cardinality(backups) >= 1
    /\ Len(Deletes) >= 1

\* a run of normalize_item_image_api on a logo or thumb that was fetched,
\* decoded and planned as NO_SCALE, in a non-dry-run
NoScaleLogoOrThumbStep ==
    /\ SingleImageStep
    /\ operation = "image"
    /\ cfg.image_type \in {"Logo", "Thumb"}
    /\ cfg.has_settings
    /\ ~cfg.dry_run
    /\ NewCalls # << >>
    /\ FetchedNow # NoImage
    /\ FetchedNow.ok
    /\ make_scale_plan(FetchedNow.w, FetchedNow.h, cfg.settings.target_width,
                       cfg.settings.target_height,
                       fit_mode_for(IMAGE_TYPE_TO_MODE(cfg.image_type)),
                       cfg.settings.allow_upscale,
                       cfg.settings.allow_downscale).decision = "NO_SCALE"

\* what the claim says of such a run
NoScaleOutcome ==
    IF ~cfg.force_upload_noscale
    THEN /\ NewWrites = << >>
         /\ stats'.skipped = stats.skipped + 1
         /\ stats'.errors = stats.errors
    ELSE /\ Len(NewWrites) = 1
         /\ NewWrites[1].op = "set_item_image_bytes"
         /\ NewWrites[1].data = FetchedNow
         /\ (NewWrites[1].ret # "True" =>
                stats'.errors = stats.errors + 1 /\ result' = "False")
         /\ (NewWrites[1].ret = "True" => stats'.errors = stats.errors)

\* save_backup raised before handle_no_scale was reached: one error, no
\* upload, nothing written, False returned
BackupRaisedOutcome ==
    /\ cfg.make_backup
    /\ normalize_backup_mode(cfg.backup_mode) = "full"
    /\ NewWrites = << >>
    /\ backups' = backups
    /\ stats'.errors = stats.errors + 1
    /\ stats'.skipped = stats.skipped
    /\ result' = "False"

\* C23 (as stated): for a logo or thumb image with a NO_SCALE plan in a
\* non-dry-run, without force_upload_noscale no upload call is made and the
\* image is recorded as a skip; with force_upload_noscale exactly one upload
\* is made, carrying the original bytes unchanged, and if that upload fails
\* one error is recorded and the result is False.
C23_NoScaleHandling ==
    [][NoScaleLogoOrThumbStep => NoScaleOutcome]_vars

\* C23 (amended): the same, unless the backup of the original raises (full
\* backup mode), in which case no upload is made, one error is recorded and
\* the result is False.
C23_NoScaleHandlingUnlessBackupRaises ==
    [][NoScaleLogoOrThumbStep => (NoScaleOutcome \/ BackupRaisedOutcome)]_vars

\* a forced upload of a NO_SCALE logo failed: the original was sent, one
\* error was recorded and False returned
C23_Witness ==
    /\ operation = "image" /\ pc = "done" /\ cfg.image_type = "Logo"
    /\ ~cfg.dry_run /\ cfg.force_upload_noscale /\ cfg.has_settings
    /\ Len(Writes) = 1
    /\ Len(Gets) = 1
    /\ Writes[1].data = Gets[1].data
    /\ Writes[1].ret # "True"
    /\ stats.errors = 1
    /\ result = "False"

\* a run of normalize_item_image_api that fetched the image and handed it to
\* _process_item_image_payload
PayloadStep ==
    /\ SingleImageStep
    /\ operation = "image"
    /\ NewCalls # << >>
    /\ FetchedNow # NoImage

\* an exception the run can be seen to have met: the bytes do not decode, or
\* the client raised
SawException ==
    \/ ~FetchedNow.ok
    \/ \E k \in DOMAIN NewCalls : NewCalls[k].ret = Raised

\* C24: any exception raised while decoding, planning, backing up,
\* normalizing or uploading one non-backdrop item image is caught inside
\* _process_item_image_payload: exactly one error is recorded, False is
\* returned and nothing propagates.
C24_PayloadErrorsCaught ==
    [][PayloadStep =>
         /\ result' \in {"True", "False"}
         /\ stats'.errors \in {stats.errors, stats.errors + 1}
         /\ (SawException => stats'.errors = stats.errors + 1 /\ result' = "False")
         /\ (result' = "False" <=> stats'.errors = stats.errors + 1)
         /\ (result' = "False" => stats'.successes = stats.successes)]_vars

\* the client raised during the upload of a normalized logo (fail_fast): one
\* error, False
C24_Witness ==
    /\ operation = "image" /\ pc = "done" /\ cfg.fail_fast /\ ~cfg.dry_run
    /\ Len(Writes) = 1
    /\ Writes[1].ret = Raised
    /\ Writes[1].data.norm
    /\ stats.errors = 1
    /\ result = "False"

\* the backdrop protocol ended in the FETCH, NORMALIZE, DELETE or VERIFY
\* phase: by one of the aborts that return False, or by an exception of
\* delete_image
EndedBeforeUpload ==
    /\ operation = "backdrops"
    /\ pc = "done"
    /\ Ran
    /\ \/ aborted \in {"fetch", "normalize", "delete", "verify"}
       \/ result = Raised /\ Uploads = << >>

NoBackdrops == cfg.has_mode /\ cfg.has_settings /\ cfg.backdrop_count \in {0, NoInt}

\* the backdrop mode mapping or its settings are missing
NoModeOrSettings == ~cfg.has_mode \/ ~cfg.has_settings

\* C26: if the item has no backdrops (backdrop_count 0 or None), exactly one
\* skip and no error is recorded; if the backdrop mode mapping or the
\* settings are missing, exactly one warning and no error is recorded; in
\* both cases no client call is made, nothing is raised, no staging
\* directory is made and False is returned.
C26_NothingToDo ==
    (operation = "backdrops" /\ (NoBackdrops \/ NoModeOrSettings)) =>
        /\ calls = << >>
        /\ staging = NoStaging
        /\ result \in {None, "False"}
        /\ pc \in {"start", "done"}
        /\ (pc = "done" =>
              /\ result = "False"
              /\ stats = IF NoModeOrSettings
                         THEN [NoStats EXCEPT !.warnings = 1]
                         ELSE [NoStats EXCEPT !.skipped = 1])

\* a real run on an item whose backdrop count is None returned after one skip
C26_Witness ==
    /\ operation = "backdrops" /\ pc = "done"
    /\ cfg.backdrop_count = NoInt /\ cfg.has_settings /\ ~cfg.dry_run
    /\ Len(server) >= 1
    /\ stats.skipped = 1
    /\ result = "False"

(***************************************************************************)
(* process_discovered_items: the loop over the discovered items and their  *)
(* enabled image types.  Each pair is handed to normalize_item_image_api,   *)
(* which runs as the single-image operation or as the backdrop protocol on *)
(* that item's images; operation names the code that is running and        *)
(* visited lists the pairs <<item, image type>> handed over so far.        *)
(***************************************************************************)
\* number of discovered items
MaxItems == 2

\* sorted(item.image_types) for the types an item can have
SortedTypes == << "Backdrop", "Logo", "Thumb" >>

sorted(image_types) == SelectSeq(SortedTypes, LAMBDA t : t \in image_types)

\* the images an item may hold under one type
ItemImages == { i \in ImagePool : i.id \in {1, 3} }

\* the sets of image types of a discovered item
ItemTypeSets == { {}, {"Logo"}, {"Backdrop"}, {"Backdrop", "Logo"}, {"Logo", "Thumb"} }

EnabledTypeSets == { {"Logo"}, {"Backdrop", "Logo"}, {"Backdrop", "Logo", "Thumb"} }

RECURSIVE PairsFrom(_, _, _)
\* the pairs the loop of process_discovered_items calls
\* normalize_item_image_api for, in order, from item k on
PairsFrom(items, enabled_set, k) ==
    IF k > Len(items) THEN << >>
    ELSE LET types == sorted(items[k] \cap enabled_set)
         IN  [i \in 1..Len(types) |-> << k, types[i] >>]
             \o PairsFrom(items, enabled_set, k + 1)

DuePairs == PairsFrom(cfg.items, cfg.enabled_image_types, 1)

ItemsConfigs ==
    { [dry_run |-> d, make_backup |-> b, backup_mode |-> "partial",
       has_mode |-> TRUE, has_settings |-> TRUE,
       settings |-> CHOOSE st \in SettingsPool : st.allow_upscale,
       backdrop_count |-> 0, client_dry_run |-> FALSE, fail_fast |-> f,
       image_type |-> "Logo", force_upload_noscale |-> FALSE,
       has_id |-> TRUE, has_tag |-> TRUE, operations |-> {},
       items |-> its, enabled_image_types |-> en] :
      d \in BOOLEAN, b \in BOOLEAN, f \in BOOLEAN,
      its \in SeqsUpTo(ItemTypeSets, MaxItems), en \in EnabledTypeSets }

InitItems ==
    /\ operation = "items"
    /\ cfg \in ItemsConfigs
    /\ server = << >>
    /\ backups = {}
    /\ staging = NoStaging
    /\ stats = NoStats
    /\ pc = "items"
    /\ idx = 0
    /\ staged_files = << >>
    /\ normalized_payloads = << >>
    /\ deletions_started = FALSE
    /\ any_upload_failed = FALSE
    /\ result = None
    /\ calls = << >>
    /\ aborted = None
    /\ rmtree_failed = FALSE
    /\ orig_server = server
    /\ replaced_orig = [i \in 0..(MaxTotal - 1) |-> NoImage]
    /\ runs = 1
    /\ visited = << >>
    /\ preview = NoPreview

\* one iteration of the loops of process_discovered_items: the next pair is
\* handed to normalize_item_image_api, or the function returns.  The images
\* the item holds under the type are chosen here; the backup and staging
\* directories of the pair start empty.
NextPair ==
    /\ operation = "items"
    /\ pc = "items"
    /\ IF Len(visited) = Len(DuePairs)
       THEN /\ pc' = "done"
            /\ UNCHANGED << cfg, server, operation, visited, orig_server >>
       ELSE LET pair == DuePairs[Len(visited) + 1] IN
            /\ visited' = Append(visited, pair)
            /\ server' \in SeqsUpTo(ItemImages, 1)
            /\ orig_server' = server'
            /\ cfg' = [cfg EXCEPT !.image_type = pair[2], !.backdrop_count = Len(server')]
            /\ operation' = IF pair[2] = "Backdrop" THEN "backdrops" ELSE "image"
            /\ pc' = IF pair[2] = "Backdrop" THEN "start" ELSE "image"
    /\ idx' = 0
    /\ staged_files' = << >>
    /\ normalized_payloads' = << >>
    /\ deletions_started' = FALSE
    /\ any_upload_failed' = FALSE
    /\ result' = None
    /\ calls' = << >>
    /\ aborted' = None
    /\ rmtree_failed' = FALSE
    /\ staging' = NoStaging
    /\ backups' = {}
    /\ UNCHANGED << stats, replaced_orig, runs, preview >>

\* variant: the loop ends when a call returns False
ReturnToLoop_stop_on_false ==
    /\ operation \in {"image", "backdrops"}
    /\ pc = "done"
    /\ operation' = "items"
    /\ pc' = IF result \in {Raised, "False"} THEN "done" ELSE "items"
    /\ UNCHANGED << cfg, server, staging, backups, locals, stats, result, calls, aborted,
                    rmtree_failed, ghosts, visited, preview >>

\* normalize_item_image_api comes back to the loop, which ignores the value
\* returned; an exception is not caught and ends process_discovered_items
ReturnToLoop ==
    /\ operation \in {"image", "backdrops"}
    /\ pc = "done"
    /\ operation' = "items"
    /\ pc' = IF result = Raised THEN "done" ELSE "items"
    /\ UNCHANGED << cfg, server, staging, backups, locals, stats, result, calls, aborted,
                    rmtree_failed, ghosts, visited, preview >>

NextItems ==
    \/ NextPair
    \/ (operation = "backdrops" /\ Next)
    \/ normalize_item_image_api
    \/ ReturnToLoop

SpecItems == InitItems /\ [][NextItems]_vars

\* process_discovered_items has ended, by returning or by an exception
ItemsEnded == operation = "items" /\ pc = "done"

\* no pair is handed over twice or out of order
VisitedInOrder ==
    /\ Len(visited) <= Len(DuePairs)
    /\ visited = SubSeq(DuePairs, 1, Len(visited))

MaxSide == 4

FitModes == {"fit", "cover"}

NoPlan ==
    [decision |-> None, scale |-> One, new_width |-> 0, new_height |-> 0,
     orig_width |-> 0, orig_height |-> 0]

InitScale ==
    /\ operation = "scale"
    /\ cfg \in [orig_w : 1..MaxSide, orig_h : 1..MaxSide,
                target_w : 1..MaxSide, target_h : 1..MaxSide, fit_mode : FitModes,
                allow_upscale : BOOLEAN, allow_downscale : BOOLEAN]
    /\ server = << >>
    /\ backups = {}
    /\ staging = NoStaging
    /\ stats = NoStats
    /\ pc = "scale"
    /\ idx = 0
    /\ staged_files = << >>
    /\ normalized_payloads = << >>
    /\ deletions_started = FALSE
    /\ any_upload_failed = FALSE
    /\ result = NoPlan
    /\ calls = << >>
    /\ aborted = None
    /\ rmtree_failed = FALSE
    /\ orig_server = server
    /\ replaced_orig = [i \in 0..(MaxTotal - 1) |-> NoImage]
    /\ runs = 1
    /\ visited = << >>
    /\ preview = NoPreview

\* one call of make_scale_plan
MakeScalePlan ==
    /\ pc = "scale"
    /\ pc' = "done"
    /\ result' = make_scale_plan(cfg.orig_w, cfg.orig_h, cfg.target_w, cfg.target_h,
                                 cfg.fit_mode, cfg.allow_upscale, cfg.allow_downscale)
    /\ UNCHANGED << cfg, server, staging, backups, locals, stats, calls, aborted,
                    rmtree_failed, ghosts, others >>

NextScale == MakeScalePlan

SpecScale == InitScale /\ [][NextScale]_vars

\* C28: for all positive original and target sizes, both fit modes and all
\* four policy combinations, make_scale_plan yields NO_SCALE exactly when the
\* scale equals 1, SCALE_UP only if allow_upscale (and only for a scale above
\* 1), SCALE_DOWN only if allow_downscale (and only for a scale below 1);
\* with both disabled the decision is always NO_SCALE and the new size
\* equals the original size.
C28_ScaleDecision ==
    (operation = "scale" /\ pc = "done") =>
        /\ result.decision \in {"NO_SCALE", "SCALE_UP", "SCALE_DOWN"}
        /\ (result.decision = "NO_SCALE" <=> result.scale[1] = result.scale[2])
        /\ (result.decision = "SCALE_UP" =>
              cfg.allow_upscale /\ result.scale[1] > result.scale[2])
        /\ (result.decision = "SCALE_DOWN" =>
              cfg.allow_downscale /\ result.scale[1] < result.scale[2])
        /\ ((~cfg.allow_upscale /\ ~cfg.allow_downscale) =>
              /\ result.decision = "NO_SCALE"
              /\ result.new_width = cfg.orig_w
              /\ result.new_height = cfg.orig_h)
        /\ result.orig_width = cfg.orig_w
        /\ result.orig_height = cfg.orig_h

\* a smaller image that may not be scaled up, with downscaling allowed, is
\* planned NO_SCALE at its own size
C28_Witness ==
    /\ operation = "scale" /\ pc = "done"
    /\ cfg.orig_w < cfg.target_w /\ cfg.orig_h < cfg.target_h
    /\ ~cfg.allow_upscale /\ cfg.allow_downscale
    /\ result.decision = "NO_SCALE"
    /\ result.new_width = cfg.orig_w /\ result.new_height = cfg.orig_h

(***************************************************************************)
(* Images as pixel grids, for cover_and_crop_image and the logo padding.   *)
(* An image is [mode, w, h, px] with px a function from the positions      *)
(* <<x, y>> to pixels [c, a]: a colour and an alpha value.                 *)
(***************************************************************************)
Positions(w, h) == (0..(w - 1)) \X (0..(h - 1))

\* the pixel Image.new and Image.crop fill with: all channels zero
ZeroPixel == [c |-> 0, a |-> 0]

max(a, b) == IF a >= b THEN a ELSE b

\* Image.convert: the mode changes; converting to a mode without an alpha
\* channel makes every pixel opaque.  The colour value is kept (a grey value
\* stays the same between L, LA, RGB and RGBA).
convert(img, mode) ==
    IF img.mode = mode THEN img
    ELSE [img EXCEPT !.mode = mode,
                     !.px = [p \in DOMAIN img.px |->
                               IF mode \in {"RGBA", "LA"} THEN img.px[p]
                               ELSE [img.px[p] EXCEPT !.a = 255]]]

\* Image.resize: an image of the new size.  A resize to the same size returns
\* the pixels unchanged; otherwise each new pixel is taken from the source
\* position it falls on (the resampling filter's blend is not modelled).
resize(img, new_width, new_height) ==
    [mode |-> img.mode, w |-> new_width, h |-> new_height,
     px |-> [p \in Positions(new_width, new_height) |->
               img.px[<< (p[1] * img.w) \div new_width,
                         (p[2] * img.h) \div new_height >>]]]

\* Image.crop: the region of the box; positions outside the image are zero
crop(img, left, top, right, bottom) ==
    [mode |-> img.mode, w |-> right - left, h |-> bottom - top,
     px |-> [p \in Positions(right - left, bottom - top) |->
               IF left + p[1] < img.w /\ top + p[2] < img.h
                  /\ left + p[1] >= 0 /\ top + p[2] >= 0
               THEN img.px[<< left + p[1], top + p[2] >>]
               ELSE ZeroPixel]]

\* variant: the box is centred without the clamp at 0
crop_box_unclamped(target_width, target_height, new_width, new_height) ==
    LET left == (new_width - target_width) \div 2
        top == (new_height - target_height) \div 2
    IN  [left |-> left, top |-> top,
         right |-> left + target_width, bottom |-> top + target_height]

\* the crop box of cover_and_crop_image
crop_box(target_width, target_height, new_width, new_height) ==
    LET left == max(0, (new_width - target_width) \div 2)
        top == max(0, (new_height - target_height) \div 2)
    IN  [left |-> left, top |-> top,
         right |-> left + target_width, bottom |-> top + target_height]

\* mode.upper() for the modes cover_and_crop_image accepts
mode_upper(mode) ==
    CASE mode \in {"RGB", "rgb"} -> "RGB"
      [] mode \in {"RGBA", "rgba"} -> "RGBA"
      [] OTHER -> None

cover_and_crop_image(img, target_width, target_height, new_width, new_height, mode) ==
    LET pre == IF mode_upper(mode) = "RGB"
               THEN IF img.mode = "L" THEN img ELSE convert(img, "RGB")
               ELSE IF mode_upper(mode) = "RGBA" THEN convert(img, "RGBA")
               ELSE img
        resized == resize(pre, new_width, new_height)
        box == crop_box(target_width, target_height, new_width, new_height)
        cropped == crop(resized, box.left, box.top, box.right, box.bottom)
    IN  IF mode_upper(mode) = "RGB" THEN convert(cropped, "RGB") ELSE cropped

(***************************************************************************)
(* cover_and_crop_image on its own: one call on a 2x2 image.               *)
(***************************************************************************)
\* a 2x2 image of the given mode whose pixels differ
SourceImage(mode) ==
    [mode |-> mode, w |-> 2, h |-> 2,
     px |-> [p \in Positions(2, 2) |->
               [c |-> 1 + p[1] + 2 * p[2], a |-> IF mode = "RGBA" THEN 128 ELSE 255]]]

NoCrop ==
    [made |-> FALSE, box |-> [left |-> 0, top |-> 0, right |-> 0, bottom |-> 0],
     mode |-> None, w |-> 0, h |-> 0, px |-> << >>]

InitCrop ==
    /\ operation = "crop"
    /\ cfg \in [target_width : 1..MaxSide, target_height : 1..MaxSide,
                new_width : 1..MaxSide, new_height : 1..MaxSide,
                mode : {None, "RGB", "rgba"}, img_mode : {"RGBA", "L"}]
    /\ server = << >>
    /\ backups = {}
    /\ staging = NoStaging
    /\ stats = NoStats
    /\ pc = "crop"
    /\ idx = 0
    /\ staged_files = << >>
    /\ normalized_payloads = << >>
    /\ deletions_started = FALSE
    /\ any_upload_failed = FALSE
    /\ result = NoCrop
    /\ calls = << >>
    /\ aborted = None
    /\ rmtree_failed = FALSE
    /\ orig_server = server
    /\ replaced_orig = [i \in 0..(MaxTotal - 1) |-> NoImage]
    /\ runs = 1
    /\ visited = << >>
    /\ preview = NoPreview

\* one call of cover_and_crop_image; the box it used is kept with the image
CoverAndCrop ==
    /\ pc = "crop"
    /\ pc' = "done"
    /\ result' = [made |-> TRUE,
                  box |-> crop_box(cfg.target_width, cfg.target_height,
                                   cfg.new_width, cfg.new_height)]
                 @@ cover_and_crop_image(SourceImage(cfg.img_mode), cfg.target_width,
                        cfg.target_height, cfg.new_width, cfg.new_height, cfg.mode)
    /\ UNCHANGED << cfg, server, staging, backups, locals, stats, calls, aborted,
                    rmtree_failed, ghosts, others >>

NextCrop == CoverAndCrop

SpecCrop == InitCrop /\ [][NextCrop]_vars

\* C29: for every resized size and target size, including resized sizes
\* smaller than the target in either dimension, cover_and_crop_image uses the
\* crop box with left = max(0, (new_width - target_width) // 2),
\* top = max(0, (new_height - target_height) // 2) and width and height
\* exactly the target, so the output size is exactly (target_width,
\* target_height).
C29_CropBox ==
    (operation = "crop" /\ pc = "done") =>
        /\ result.box.left = IF cfg.new_width - cfg.target_width >= 2
                             THEN (cfg.new_width - cfg.target_width) \div 2 ELSE 0
        /\ result.box.top = IF cfg.new_height - cfg.target_height >= 2
                            THEN (cfg.new_height - cfg.target_height) \div 2 ELSE 0
        /\ result.box.right - result.box.left = cfg.target_width
        /\ result.box.bottom - result.box.top = cfg.target_height
        /\ result.w = cfg.target_width
        /\ result.h = cfg.target_height
        /\ DOMAIN result.px = Positions(cfg.target_width, cfg.target_height)

\* the resized image is narrower than the target and taller by three: the
\* box starts at the left edge, one row down
C29_Witness ==
    /\ operation = "crop" /\ pc = "done"
    /\ cfg.new_width < cfg.target_width
    /\ cfg.new_height = cfg.target_height + 3
    /\ result.box.left = 0 /\ result.box.top = 1
    /\ result.w = cfg.target_width /\ result.h = cfg.target_height
    /\ result.px[<< cfg.target_width - 1, 0 >>] = ZeroPixel

(***************************************************************************)
(* The logo padding: fit_contain_and_pad_image centres the resized logo on *)
(* a transparent canvas, remove_padding_from_logo crops a transparent      *)
(* border away.  remove_padding_from_logo is imported by pipeline.py from  *)
(* imaging and is given here as the specification describes it.            *)
(***************************************************************************)
\* Image.new(mode, size, color)
new_image(mode, width, height, color) ==
    [mode |-> mode, w |-> width, h |-> height,
     px |-> [p \in Positions(width, height) |-> color]]

\* the blend of Image.paste for one channel under a mask value
blend(under, over, mask) ==
    LET tmp == under * (255 - mask) + over * mask + 128
    IN  ((tmp \div 256) + tmp) \div 256

\* canvas.paste(img, (offset_x, offset_y), img): the image over the canvas at
\* the offset, blended by the image's own alpha
paste(canvas, img, offset_x, offset_y) ==
    [canvas EXCEPT !.px =
        [p \in DOMAIN canvas.px |->
           LET q == << p[1] - offset_x, p[2] - offset_y >>
           IN  IF q \in DOMAIN img.px
               THEN [c |-> blend(canvas.px[p].c, img.px[q].c, img.px[q].a),
                     a |-> blend(canvas.px[p].a, img.px[q].a, img.px[q].a)]
               ELSE canvas.px[p]]]

\* variant: the canvas is opaque black
fit_contain_and_pad_image_opaque_canvas(img, target_width, target_height, orig_mode, new_width, new_height, no_padding) ==
    LET resized == resize(convert(img, "RGBA"), new_width, new_height)
        canvas == IF no_padding THEN resized
                  ELSE paste(new_image("RGBA", target_width, target_height,
                                       [c |-> 0, a |-> 255]),
                             resized, (target_width - new_width) \div 2,
                             (target_height - new_height) \div 2)
    IN  IF orig_mode = "LA" THEN convert(canvas, "LA") ELSE canvas

\* fit_contain_and_pad_image for an original that is not paletted
fit_contain_and_pad_image(img, target_width, target_height, orig_mode, new_width, new_height, no_padding) ==
    LET resized == resize(convert(img, "RGBA"), new_width, new_height)
        canvas == IF no_padding THEN resized
                  ELSE paste(new_image("RGBA", target_width, target_height, ZeroPixel),
                             resized, (target_width - new_width) \div 2,
                             (target_height - new_height) \div 2)
    IN  IF orig_mode = "LA" THEN convert(canvas, "LA") ELSE canvas

\* the positions whose alpha exceeds the sensitivity threshold
above_alpha_threshold(img, sensitivity) ==
    { p \in DOMAIN img.px : img.px[p].a > sensitivity }

Least(S) == CHOOSE x \in S : \A y \in S : x <= y

Greatest(S) == CHOOSE x \in S : \A y \in S : x >= y

\* remove_padding_from_logo: the image cropped to the bounding box of the
\* pixels above the threshold, and whether it was cropped; an image with no
\* such pixel, or with one on every edge, is returned as it is
remove_padding_from_logo(img, sensitivity) ==
    LET kept == above_alpha_threshold(img, sensitivity)
        xs == { p[1] : p \in kept }
        ys == { p[2] : p \in kept }
    IN  IF kept = {} THEN [image |-> img, changed |-> FALSE]
        ELSE IF Least(xs) = 0 /\ Least(ys) = 0
                /\ Greatest(xs) = img.w - 1 /\ Greatest(ys) = img.h - 1
        THEN [image |-> img, changed |-> FALSE]
        ELSE [image |-> crop(img, Least(xs), Least(ys), Greatest(xs) + 1, Greatest(ys) + 1),
              changed |-> TRUE]

\* the largest width or height of a logo
MaxLogo == 3

\* the largest width or height of the canvas
MaxCanvas == 4

\* how the pixels of a logo are laid out: one colour, a colour per position,
\* a transparent corner, a transparent first column
LogoPatterns == {"plain", "gradient", "corner", "column"}

LogoPixel(pattern, p) ==
    CASE pattern = "plain" -> [c |-> 10, a |-> 255]
      [] pattern = "gradient" -> [c |-> 1 + p[1] + 16 * p[2], a |-> 255]
      [] pattern = "corner" -> IF p = << 0, 0 >> THEN [c |-> 30, a |-> 0]
                               ELSE [c |-> 1 + p[1] + 16 * p[2], a |-> 255]
      [] OTHER -> IF p[1] = 0 THEN [c |-> 0, a |-> 0] ELSE [c |-> 20, a |-> 255]

\* the logos: every pattern at every size up to MaxLogo x MaxLogo; an RGB
\* image has no alpha channel
Logos ==
    LET all == { [mode |-> m, w |-> w, h |-> h,
                  px |-> [p \in Positions(w, h) |-> LogoPixel(pattern, p)]] :
                 m \in {"RGBA", "RGB", "LA"}, w \in 1..MaxLogo, h \in 1..MaxLogo,
                 pattern \in LogoPatterns }
    IN  { l \in all : l.mode = "RGB" => \A p \in DOMAIN l.px : l.px[p].a = 255 }

NoLogo == [mode |-> None, w |-> 0, h |-> 0, px |-> << >>]

InitPad ==
    /\ operation = "pad"
    /\ cfg \in [base : Logos, target_width : 1..MaxCanvas, target_height : 1..MaxCanvas]
    /\ server = << >>
    /\ backups = {}
    /\ staging = NoStaging
    /\ stats = NoStats
    /\ pc = "pad"
    /\ idx = 0
    /\ staged_files = << >>
    /\ normalized_payloads = << >>
    /\ deletions_started = FALSE
    /\ any_upload_failed = FALSE
    /\ result = [padded |-> NoLogo, cropped |-> NoLogo, changed |-> FALSE]
    /\ calls = << >>
    /\ aborted = None
    /\ rmtree_failed = FALSE
    /\ orig_server = server
    /\ replaced_orig = [i \in 0..(MaxTotal - 1) |-> NoImage]
    /\ runs = 1
    /\ visited = << >>
    /\ preview = NoPreview

\* the logo is padded to the canvas without a resize
AddPadding ==
    /\ pc = "pad"
    /\ pc' = "remove"
    /\ result' = [result EXCEPT !.padded =
                     fit_contain_and_pad_image(cfg.base, cfg.target_width,
                         cfg.target_height, cfg.base.mode, cfg.base.w, cfg.base.h, FALSE)]
    /\ UNCHANGED << cfg, server, staging, backups, locals, stats, calls, aborted,
                    rmtree_failed, ghosts, others >>

\* the padding is removed at sensitivity 0
RemovePadding ==
    /\ pc = "remove"
    /\ pc' = "done"
    /\ LET r == remove_padding_from_logo(result.padded, 0)
       IN  result' = [result EXCEPT !.cropped = r.image, !.changed = r.changed]
    /\ UNCHANGED << cfg, server, staging, backups, locals, stats, calls, aborted,
                    rmtree_failed, ghosts, others >>

NextPad == AddPadding \/ RemovePadding

SpecPad == InitPad /\ [][NextPad]_vars

FullyOpaque(img) == \A p \in DOMAIN img.px : img.px[p].a = 255

MaxIndex == 11

Extensions == {".png", ".jpg", ".webp"}

\* names found in a backup directory that backup_path_for_image did not make
OtherNames ==
    { FileName(letters, digits, ext) :
        letters \in {"primary", "unknownfile", "banner", "logo", "LOGO"},
        digits \in {<< >>, << 1 >>}, ext \in Extensions }

NoName == [name |-> FileName(None, << >>, None), image_type |-> None, index |-> NoInt]

InitNames ==
    /\ operation = "names"
    /\ cfg \in [made : {TRUE}, image_type : ImageTypes,
                backdrop_index : {NoInt} \cup (0..MaxIndex), extension : Extensions,
                name : {FileName(None, << >>, None)},
                operations : {{"logo", "thumb", "profile", "backdrop"}}]
          \cup
          [made : {FALSE}, image_type : {None}, backdrop_index : {NoInt},
           extension : {None}, name : OtherNames,
           operations : {{"logo", "thumb", "profile", "backdrop"}}]
    /\ server = << >>
    /\ backups = {}
    /\ staging = NoStaging
    /\ stats = NoStats
    /\ pc = "path"
    /\ idx = 0
    /\ staged_files = << >>
    /\ normalized_payloads = << >>
    /\ deletions_started = FALSE
    /\ any_upload_failed = FALSE
    /\ result = NoName
    /\ calls = << >>
    /\ aborted = None
    /\ rmtree_failed = FALSE
    /\ orig_server = server
    /\ replaced_orig = [i \in 0..(MaxTotal - 1) |-> NoImage]
    /\ runs = 1
    /\ visited = << >>
    /\ preview = NoPreview

\* the name is made by backup_path_for_image, or found in the directory
BackupPath ==
    /\ pc = "path"
    /\ pc' = "parse"
    /\ result' = [result EXCEPT !.name =
                     IF cfg.made
                     THEN backup_file_name(cfg.image_type, cfg.extension, cfg.backdrop_index)
                     ELSE cfg.name]
    /\ UNCHANGED << cfg, server, staging, backups, locals, stats, calls, aborted,
                    rmtree_failed, ghosts, others >>

\* the name is read back as restore does: the image type and, for a
\* backdrop, the index
ParseName ==
    /\ pc = "parse"
    /\ pc' = "done"
    /\ LET image_type == image_type_from_filename(result.name)
       IN  result' = [result EXCEPT
                        !.image_type = image_type,
                        !.index = IF image_type = "Backdrop"
                                  THEN extract_backdrop_index(result.name) ELSE NoInt]
    /\ UNCHANGED << cfg, server, staging, backups, locals, stats, calls, aborted,
                    rmtree_failed, ghosts, others >>

NextNames == BackupPath \/ ParseName

SpecNames == InitNames /\ [][NextNames]_vars

\* the name read back gives the type and the index it was made from
ReadsBack ==
    /\ result.image_type = cfg.image_type
    /\ (cfg.image_type = "Backdrop" =>
          result.index = IF cfg.backdrop_index = NoInt THEN 0 ELSE cfg.backdrop_index)
    /\ (cfg.backdrop_index \in {NoInt, 0} => result.name.digits = << >>)
    /\ Eligible([item |-> "a1", name |-> result.name])

\* a name matching no configured stem raises and is ignored by restore
OtherNamesIgnored ==
    (operation = "names" /\ pc = "done" /\ ~cfg.made
       /\ (Lower(result.name.letters) \notin { FILENAME_CONFIG(t) : t \in ImageTypes }
           \/ result.name.digits # << >>)) =>
        /\ result.image_type = Raised
        /\ ~Eligible([item |-> "a1", name |-> result.name])

\* C31: for every image type in {Logo, Thumb, Primary, Backdrop}
\* and every backdrop index n >= 0, the file name produced by
\* backup_path_for_image maps back through image_type_from_filename to the
\* same image type and, for backdrops, through _extract_backdrop_index to the
\* same n (index 0 and no index both give the bare stem); a name matching no
\* configured stem raises and is ignored by restore.
C31_NameRoundTrip ==
    /\ (operation = "names" /\ pc = "done" /\ cfg.made) => ReadsBack
    /\ OtherNamesIgnored

\* what the code does: the round trip holds for Backdrop with every index
\* and for the other types with no index or index 0; for Logo, Thumb or
\* Primary with an index n > 0 the stem gets the suffix n and the name is
\* not recognised
NameRoundTripAsCoded ==
    /\ (operation = "names" /\ pc = "done" /\ cfg.made) =>
          IF cfg.image_type = "Backdrop" \/ cfg.backdrop_index \in {NoInt, 0}
          THEN ReadsBack
          ELSE /\ result.name.digits = DecimalDigits(cfg.backdrop_index)
               /\ result.image_type = Raised
    /\ OtherNamesIgnored

(***************************************************************************)
(* client.py: the retry loops of _get, delete_image and _post_image, and   *)
(* set_user_profile_image.  calls lists each HTTP request made with its    *)
(* outcome: an OK response, a non-OK response or an exception of the       *)
(* requests library; idx counts the attempts of the running loop; visited  *)
(* holds the failures list handed to set_user_profile_image.               *)
(***************************************************************************)
\* the largest retry_count
MaxRetry == 3

\* variant: one attempt more than configured
attempts_one_more(retry_count) == max(1, retry_count) + 1

\* attempts = max(1, int(self.retry_count))
attempts(retry_count) == max(1, retry_count)

RequestOutcomes == {"ok", "non_ok", "exception"}

Request(method, outcome) == [method |-> method, outcome |-> outcome]

\* the failure entry of set_user_profile_image for a failed delete
DeleteFailureEntry ==
    [image_type |-> "Primary",
     error |-> "Failed to delete existing profile image before upload"]

\* the failure entry of _post_image
PostFailureEntry == [image_type |-> "Primary", error |-> "last_error_msg"]

InitClient ==
    /\ operation \in {"GET", "DELETE", "PROFILE"}
    /\ cfg \in { c \in [retry_count : (-1)..MaxRetry, fail_fast : BOOLEAN,
                        client_dry_run : BOOLEAN, failures_given : BOOLEAN] :
                   /\ operation = "GET" => ~c.fail_fast /\ ~c.client_dry_run
                   /\ operation # "PROFILE" => ~c.failures_given }
    /\ server = << >>
    /\ backups = {}
    /\ staging = NoStaging
    /\ stats = NoStats
    /\ pc = "request"
    /\ idx = 0
    /\ staged_files = << >>
    /\ normalized_payloads = << >>
    /\ deletions_started = FALSE
    /\ any_upload_failed = FALSE
    /\ result = None
    /\ calls = << >>
    /\ aborted = None
    /\ rmtree_failed = FALSE
    /\ orig_server = server
    /\ replaced_orig = [i \in 0..(MaxTotal - 1) |-> NoImage]
    /\ runs = 1
    /\ visited = << >>
    /\ preview = NoPreview

\* one iteration of the loop of _get: an OK response is returned; after the
\* last attempt None is returned
GetRequest ==
    /\ operation = "GET"
    /\ pc = "request"
    /\ idx < attempts(cfg.retry_count)
    /\ \E outcome \in RequestOutcomes :
         /\ calls' = Append(calls, Request("GET", outcome))
         /\ idx' = idx + 1
         /\ IF outcome = "ok"
            THEN result' = "payload" /\ pc' = "done"
            ELSE IF idx + 1 = attempts(cfg.retry_count)
            THEN result' = None /\ pc' = "done"
            ELSE UNCHANGED << result, pc >>
    /\ UNCHANGED << cfg, server, staging, backups, staged_files, normalized_payloads,
                    deletions_started, any_upload_failed, stats, aborted,
                    rmtree_failed, ghosts, others >>

\* where delete_image returns to: its caller set_user_profile_image, unless
\* it was called on its own or raised
AfterDelete(returned) ==
    IF operation = "PROFILE" /\ returned # Raised THEN "deleted" ELSE "done"

\* delete_image of a dry-run client: True without a request
DeleteDryRun ==
    /\ operation \in {"DELETE", "PROFILE"}
    /\ pc = "request"
    /\ cfg.client_dry_run
    /\ result' = "True"
    /\ pc' = AfterDelete("True")
    /\ UNCHANGED << cfg, server, staging, backups, locals, stats, calls, aborted,
                    rmtree_failed, ghosts, others >>

\* one iteration of the loop of delete_image: an OK response returns True, an
\* exception returns False; after the last non-OK response False is
\* returned, or RuntimeError raised under fail_fast
DeleteRequest ==
    /\ operation \in {"DELETE", "PROFILE"}
    /\ pc = "request"
    /\ ~cfg.client_dry_run
    /\ idx < attempts(cfg.retry_count)
    /\ \E outcome \in RequestOutcomes :
         /\ calls' = Append(calls, Request("DELETE", outcome))
         /\ idx' = idx + 1
         /\ CASE outcome = "ok" -> result' = "True" /\ pc' = AfterDelete("True")
              [] outcome = "exception" ->
                   result' = "False" /\ pc' = AfterDelete("False")
              [] OTHER ->
                   IF idx + 1 = attempts(cfg.retry_count)
                   THEN /\ result' = IF cfg.fail_fast THEN Raised ELSE "False"
                        /\ pc' = AfterDelete(IF cfg.fail_fast THEN Raised ELSE "False")
                   ELSE UNCHANGED << result, pc >>
    /\ UNCHANGED << cfg, server, staging, backups, staged_files, normalized_payloads,
                    deletions_started, any_upload_failed, stats, aborted,
                    rmtree_failed, ghosts >>
    /\ UNCHANGED others

\* variant: the upload goes ahead after a failed delete
ProfileDeleteFailed_posts_anyway ==
    /\ operation = "PROFILE"
    /\ pc = "deleted"
    /\ result = "False"
    /\ pc' = "post"
    /\ idx' = 0
    /\ UNCHANGED << cfg, server, staging, backups, staged_files, normalized_payloads,
                    deletions_started, any_upload_failed, stats, aborted, result,
                    calls, rmtree_failed, ghosts, others >>

\* set_user_profile_image after delete_image returned False: the failure
\* entry is appended to failures if given; RuntimeError under fail_fast,
\* else False
ProfileDeleteFailed ==
    /\ operation = "PROFILE"
    /\ pc = "deleted"
    /\ result = "False"
    /\ visited' = IF cfg.failures_given
                  THEN Append(visited, DeleteFailureEntry) ELSE visited
    /\ result' = IF cfg.fail_fast THEN Raised ELSE "False"
    /\ pc' = "done"
    /\ UNCHANGED << cfg, server, staging, backups, locals, stats, calls, aborted,
                    rmtree_failed, orig_server, replaced_orig, runs, operation,
                    preview >>

\* set_user_profile_image after delete_image returned True: _post_image,
\* which returns True without a request when the client is a dry-run client
ProfilePost ==
    /\ operation = "PROFILE"
    /\ pc = "deleted"
    /\ result = "True"
    /\ IF cfg.client_dry_run
       THEN pc' = "done" /\ UNCHANGED idx
       ELSE pc' = "post" /\ idx' = 0
    /\ UNCHANGED << cfg, server, staging, backups, staged_files, normalized_payloads,
                    deletions_started, any_upload_failed, stats, aborted, result,
                    calls, rmtree_failed, ghosts, others >>

\* one iteration of the loop of _post_image: an OK response returns True;
\* after the last attempt the failure entry is appended to failures if
\* given, then RuntimeError under fail_fast, else False
PostRequest ==
    /\ operation = "PROFILE"
    /\ pc = "post"
    /\ idx < attempts(cfg.retry_count)
    /\ \E outcome \in RequestOutcomes :
         /\ calls' = Append(calls, Request("POST", outcome))
         /\ idx' = idx + 1
         /\ IF outcome = "ok"
            THEN result' = "True" /\ pc' = "done" /\ UNCHANGED visited
            ELSE IF idx + 1 = attempts(cfg.retry_count)
            THEN /\ visited' = IF cfg.failures_given
                               THEN Append(visited, PostFailureEntry) ELSE visited
                 /\ result' = IF cfg.fail_fast THEN Raised ELSE "False"
                 /\ pc' = "done"
            ELSE UNCHANGED << result, pc, visited >>
    /\ UNCHANGED << cfg, server, staging, backups, staged_files, normalized_payloads,
                    deletions_started, any_upload_failed, stats, aborted,
                    rmtree_failed, orig_server, replaced_orig, runs, operation,
                    preview >>

NextClient ==
    \/ GetRequest
    \/ DeleteDryRun
    \/ DeleteRequest
    \/ ProfileDeleteFailed
    \/ ProfilePost
    \/ PostRequest

SpecClient == InitClient /\ [][NextClient]_vars

\* at most max(1, retry_count) requests, none after an OK response
BoundedRequests ==
    /\ Len(calls) <= IF cfg.retry_count >= 1 THEN cfg.retry_count ELSE 1
    /\ \A k \in DOMAIN calls :
         calls[k].outcome = "ok" => k = Len(calls) /\ pc = "done"

\* a GET that fails once and then succeeds has made exactly 2 requests and
\* returns the payload
GetSecondAttempt ==
    (operation = "GET" /\ Len(calls) >= 2
       /\ calls[1].outcome # "ok" /\ calls[2].outcome = "ok") =>
        Len(calls) = 2 /\ pc = "done" /\ result = "payload"

\* a DELETE whose first response is OK has made exactly 1 request and returns
\* True
DeleteFirstOk ==
    (operation = "DELETE" /\ calls # << >> /\ calls[1].outcome = "ok") =>
        Len(calls) = 1 /\ pc = "done" /\ result = "True"

\* a DELETE has returned or raised after only non-OK responses
DeleteAllNonOk ==
    /\ operation = "DELETE" /\ pc = "done" /\ calls # << >>
    /\ \A k \in DOMAIN calls : calls[k].outcome = "non_ok"

RequestsOf(method) == { k \in DOMAIN calls : calls[k].method = method }

\* every POST follows a delete_image that returned True: an OK response to
\* DELETE, or no DELETE at all with a dry-run client
PostOnlyAfterDelete ==
    \A k \in RequestsOf("POST") :
        \E j \in RequestsOf("DELETE") : j < k /\ calls[j].outcome = "ok"

\* set_user_profile_image has ended and its delete_image failed
ProfileDeleteHasFailed ==
    /\ operation = "PROFILE" /\ pc = "done"
    /\ ~cfg.client_dry_run
    /\ \A j \in RequestsOf("DELETE") : calls[j].outcome # "ok"

FailureAppended == cfg.failures_given => visited = << DeleteFailureEntry >>

C33_CallsAtMostOnce ==
    (operation = "backdrops") =>
        /\ Len(Gets) <= total
        /\ \A k \in 1..Len(Gets) :
             /\ Gets[k].index = k - 1
             /\ Gets[k].data = NoImage => k = Len(Gets)
        /\ Len(Deletes) <= total
        /\ \A k \in 1..Len(Deletes) : Deletes[k].ret # "True" => k = Len(Deletes)
        /\ Cardinality(Pos("get_item_image_head")) <= 1
        /\ Len(Uploads) <= total
        /\ \A k \in 1..Len(Uploads) : Uploads[k].index = k - 1

\* a run of three backdrops made every call once, one upload failing
C33_Witness ==
    /\ operation = "backdrops" /\ pc = "done" /\ total = 3
    /\ Len(Gets) = 3 /\ Len(Deletes) = 3 /\ Len(Uploads) = 3
    /\ Cardinality(Pos("get_item_image_head")) = 1
    /\ Uploads[2].ret = "False"

\* C35: in a non-dry-run of the backdrop protocol, from the first
\* delete_image call until the function returns, the item's staging
\* directory holds one file per source index 0..N-1 containing exactly the
\* bytes fetched for that index, unless all N uploads succeeded; hence every
\* original removed from the server remains recoverable from staging
\* whenever the replacement is incomplete (delete failure, verify failure or
\* upload failure).
C35_StagingHoldsOriginals ==
    (operation = "backdrops" /\ ~cfg.dry_run /\ Len(Deletes) >= 1
       /\ Cardinality(OkUploads) # total) =>
        /\ StagedOriginalsKept
        /\ Cardinality(staging.files) = total
        /\ \A k \in 1..total : Gets[k].data = orig_server[k]

\* the second delete failed after the first removed an original from the
\* server: the run has returned and staging holds all three originals
C35_Witness ==
    /\ operation = "backdrops" /\ pc = "done" /\ ~cfg.dry_run /\ total = 3
    /\ Len(Deletes) = 2 /\ Deletes[1].ret = "True" /\ Deletes[2].ret = "False"
    /\ Len(server) < Len(orig_server)
    /\ StagedOriginalsKept

(***************************************************************************)
(* Re-runs of backdrop normalization over an item whose earlier run kept   *)
(* its staged originals after an upload failure.  visited records, for     *)
(* each such earlier run, the files it left in the staging directory.      *)
(***************************************************************************)
\* the tool is started again for the same item
RerunAfterRetention ==
    /\ pc = "done"
    /\ runs < MaxRuns
    /\ Len(server) <= MaxTotal
    /\ runs' = runs + 1
    /\ cfg' = [cfg EXCEPT !.backdrop_count = Len(server)]
    /\ visited' = IF any_upload_failed THEN Append(visited, staging.files) ELSE visited
    /\ stats' = NoStats
    /\ pc' = "start"
    /\ idx' = 0
    /\ staged_files' = << >>
    /\ normalized_payloads' = << >>
    /\ deletions_started' = FALSE
    /\ any_upload_failed' = FALSE
    /\ result' = None
    /\ calls' = << >>
    /\ aborted' = None
    /\ rmtree_failed' = FALSE
    /\ UNCHANGED << server, staging, backups, orig_server, replaced_orig, operation,
                    preview >>

NextRecovery == Next \/ RerunAfterRetention

SpecRecovery == InitRuns /\ [][NextRecovery]_vars

\* C34: staged originals retained after an upload failure stay available for
\* manual recovery: no later operation of the tool, in particular a re-run
\* of backdrop normalization for the same item (including a re-run that
\* aborts in FETCH or NORMALIZE), deletes or overwrites them.
C34_RetainedOriginalsStay ==
    \A r \in DOMAIN visited : \A f \in visited[r] : f \in staging.files

(***************************************************************************)
(* jfin.py, main: the run settings main derives from the command line and  *)
(* the config file, the JellyfinClient it builds from the same config, and *)
(* one upload the pipeline makes through that client.  cfg holds the       *)
(* parsed arguments and the loaded config file, whose boolean keys may be  *)
(* absent.                                                                 *)
(***************************************************************************)
Absent == "absent"

TomlBool == {"true", "false", Absent}

\* cfg.get(key, default) of a boolean key
cfg_get(conf, key, default) ==
    IF conf[key] = Absent THEN default ELSE conf[key] = "true"

\* apply_cli_overrides: --dry-run and --backup set the keys to True
apply_cli_overrides(args, conf) ==
    [conf EXCEPT !.dry_run = IF args.dry_run THEN "true" ELSE @,
                 !.backup = IF args.backup THEN "true" ELSE @]

\* build_jellyfin_client_from_config: the client's dry_run and fail_fast
build_jellyfin_client_from_config(conf) ==
    [dry_run |-> cfg_get(conf, "dry_run", TRUE),
     fail_fast |-> cfg_get(conf, "fail_fast", FALSE)]

NoMain == [dry_run |-> FALSE, make_backup |-> FALSE, client_dry_run |-> FALSE,
           fail_fast |-> FALSE, uploaded |-> None]

InitMain ==
    /\ operation = "main"
    /\ cfg \in [args : [dry_run : BOOLEAN, backup : BOOLEAN],
                file : [dry_run : TomlBool, backup : TomlBool, fail_fast : TomlBool]]
    /\ server = << >>
    /\ backups = {}
    /\ staging = NoStaging
    /\ stats = NoStats
    /\ pc = "main"
    /\ idx = 0
    /\ staged_files = << >>
    /\ normalized_payloads = << >>
    /\ deletions_started = FALSE
    /\ any_upload_failed = FALSE
    /\ result = NoMain
    /\ calls = << >>
    /\ aborted = None
    /\ rmtree_failed = FALSE
    /\ orig_server = server
    /\ replaced_orig = [i \in 0..(MaxTotal - 1) |-> NoImage]
    /\ runs = 1
    /\ visited = << >>
    /\ preview = NoPreview

\* main: merge the command line into the config, derive dry_run and
\* make_backup, build the client
Main ==
    /\ operation = "main"
    /\ pc = "main"
    /\ LET merged == apply_cli_overrides(cfg.args, cfg.file)
           jf_client == build_jellyfin_client_from_config(merged)
       IN  result' = [dry_run |-> cfg.args.dry_run \/ cfg_get(merged, "dry_run", FALSE),
                      make_backup |-> cfg.args.backup \/ cfg_get(merged, "backup", FALSE),
                      client_dry_run |-> jf_client.dry_run,
                      fail_fast |-> jf_client.fail_fast,
                      uploaded |-> None]
    /\ pc' = "pipeline"
    /\ UNCHANGED << cfg, server, staging, backups, locals, stats, calls, aborted,
                    rmtree_failed, ghosts, others >>

\* the pipeline's upload of a normalized image: nothing in a dry run;
\* otherwise the client's _post_image, which returns True without a request
\* when the client is a dry-run client
PipelineUpload ==
    /\ operation = "main"
    /\ pc = "pipeline"
    /\ IF result.dry_run
       THEN UNCHANGED << result, calls >>
       ELSE IF result.client_dry_run
       THEN result' = [result EXCEPT !.uploaded = "True"] /\ UNCHANGED calls
       ELSE \E outcome \in {"ok", "non_ok"} :
              /\ calls' = Append(calls, Request("POST", outcome))
              /\ result' = [result EXCEPT !.uploaded =
                              IF outcome = "ok" THEN "True"
                              ELSE IF result.fail_fast THEN Raised ELSE "False"]
    /\ pc' = "done"
    /\ UNCHANGED << cfg, server, staging, backups, locals, stats, aborted,
                    rmtree_failed, ghosts, others >>

NextMain == Main \/ PipelineUpload

SpecMain == InitMain /\ [][NextMain]_vars

\* C36: for every combination of the --dry-run flag and the config (dry_run
\* key true, false or absent), the dry_run value that main passes to the
\* pipeline equals the dry_run value of the JellyfinClient built from the
\* same config, so a run the pipeline treats as real never has its client
\* writes silently suppressed and reported as successes.
C36_SameDryRun ==
    (operation = "main" /\ pc \in {"pipeline", "done"}) =>
        /\ result.dry_run = result.client_dry_run
        /\ (~result.dry_run /\ result.uploaded = "True") => calls # << >>

(***************************************************************************)
(* pipeline.py: _process_item_image_payload for a Logo whose settings have *)
(* logo_padding "remove" or "none".  The bytes of an image are the picture *)
(* they decode to, their content type and whether encode_image_to_bytes    *)
(* produced them.  cfg holds the fetched bytes and the settings; backups   *)
(* are off and the client is a real client.                                *)
(***************************************************************************)
LogoBytes == [img : Logos, ct : {"image/png"}, norm : {FALSE}]

NoBytes == [img |-> NoLogo, ct |-> None, norm |-> FALSE]

\* _normalize_image_bytes for mode "logo": crop the transparent border when
\* logo_padding is "remove", plan for the cropped image, and re-encode
\* unless the plan is NO_SCALE and nothing was cropped
normalize_logo_bytes(data, st) ==
    LET removed == IF st.logo_padding = "remove"
                   THEN remove_padding_from_logo(data.img,
                                                 st.logo_padding_remove_sensitivity)
                   ELSE [image |-> data.img, changed |-> FALSE]
        img == removed.image
        plan == make_scale_plan(img.w, img.h, st.target_width, st.target_height,
                                "fit", st.allow_upscale, st.allow_downscale)
    IN  IF plan.decision = "NO_SCALE" /\ ~removed.changed
        THEN [decision |-> plan.decision, cropped |-> FALSE, payload |-> data]
        ELSE [decision |-> plan.decision, cropped |-> removed.changed,
              payload |-> [img |-> fit_contain_and_pad_image(img, st.target_width,
                                       st.target_height, data.img.mode,
                                       plan.new_width, plan.new_height, TRUE),
                           ct |-> "image/png", norm |-> TRUE]]

InitLogo ==
    /\ operation = "logo"
    /\ cfg \in [data : LogoBytes,
                target_width : 1..MaxCanvas, target_height : 1..MaxCanvas,
                allow_upscale : BOOLEAN, allow_downscale : BOOLEAN,
                logo_padding : {"remove", "none"},
                logo_padding_remove_sensitivity : {0},
                dry_run : BOOLEAN, force_upload_noscale : BOOLEAN]
    /\ server = << >>
    /\ backups = {}
    /\ staging = NoStaging
    /\ stats = NoStats
    /\ pc = "logo"
    /\ idx = 0
    /\ staged_files = << >>
    /\ normalized_payloads = << >>
    /\ deletions_started = FALSE
    /\ any_upload_failed = FALSE
    /\ result = [ret |-> None, decision |-> None, cropped |-> FALSE, payload |-> NoBytes]
    /\ calls = << >>
    /\ aborted = None
    /\ rmtree_failed = FALSE
    /\ orig_server = server
    /\ replaced_orig = [i \in 0..(MaxTotal - 1) |-> NoImage]
    /\ runs = 1
    /\ visited = << >>
    /\ preview = NoPreview

\* _process_item_image_payload: normalize, let handle_no_scale end the call
\* for a NO_SCALE plan (uploading the original bytes under
\* force_upload_noscale), otherwise upload the payload unless in a dry run
ProcessLogoPayload ==
    /\ operation = "logo"
    /\ pc = "logo"
    /\ pc' = "done"
    /\ LET n == normalize_logo_bytes(cfg.data, cfg)
           ended(ret) == [ret |-> ret, decision |-> n.decision, cropped |-> n.cropped,
                          payload |-> n.payload]
       IN  \E h \in handle_no_scale(n.decision, cfg.dry_run, cfg.force_upload_noscale,
                        set_single_item_image_bytes(server, cfg.data, cfg.data.ct,
                                                    FALSE, FALSE),
                        stats, ~cfg.force_upload_noscale, server) :
             IF h.result # None
             THEN /\ result' = ended(h.result)
                  /\ stats' = h.stats
                  /\ server' = h.server
                  /\ calls' = IF h.uploaded
                              THEN << Call("set_item_image_bytes", NoInt, cfg.data, h.ret) >>
                              ELSE << >>
             ELSE IF cfg.dry_run
             THEN /\ result' = ended("True")
                  /\ stats' = record_success(stats)
                  /\ UNCHANGED << server, calls >>
             ELSE \E u \in set_single_item_image_bytes(server, n.payload, n.payload.ct,
                                                       FALSE, FALSE) :
                    /\ result' = ended(u.ret)
                    /\ stats' = IF u.ret = "True" THEN record_success(stats)
                                ELSE record_error(stats)
                    /\ server' = u.server
                    /\ calls' = << Call("set_item_image_bytes", NoInt, n.payload, u.ret) >>
    /\ UNCHANGED << cfg, staging, backups, locals, aborted, rmtree_failed, ghosts,
                    others >>

NextLogo == ProcessLogoPayload

SpecLogo == InitLogo /\ [][NextLogo]_vars

\* C37: for a logo processed with logo_padding 'remove' in a non-dry-run,
\* when the transparent-border crop actually changed the image, the cropped
\* and re-encoded payload is what gets uploaded, also when the scale
\* decision for the cropped image is NO_SCALE.
C37_CroppedPayloadUploaded ==
    (operation = "logo" /\ pc = "done" /\ cfg.logo_padding = "remove"
       /\ ~cfg.dry_run /\ result.cropped) =>
        /\ result.payload.norm
        /\ \E k \in DOMAIN calls :
             calls[k].op = "set_item_image_bytes" /\ calls[k].data = result.payload

\* the same with the NO_SCALE case left out: what the code does
CroppedPayloadUploadedWhenScaled ==
    (operation = "logo" /\ pc = "done" /\ cfg.logo_padding = "remove"
       /\ ~cfg.dry_run /\ result.cropped /\ result.decision # "NO_SCALE") =>
        \E k \in DOMAIN calls :
            calls[k].op = "set_item_image_bytes" /\ calls[k].data = result.payload

====
